---- MODULE Spec2Model ----
(***************************************************************************)
(* Kosher Store backend: the /apk-url resolution pipeline of every         *)
(* revision kept in the repository (v2.1, v3.0, v4.0, v4.2, v4.3, v4.4,    *)
(* v4.5, v5.0) and the override lookup of v5.0.                            *)
(*                                                                         *)
(* Strings are sequences of tokens: a digit, a sign, a dot or a letter is  *)
(* a token of its own wherever the code parses the string; a URL is the    *)
(* sequence of the pieces the code concatenates.  The empty sequence is    *)
(* the empty string and also stands for an undefined/null string, which    *)
(* the code tells apart from a real string by truthiness only.             *)
(* A null number is the value Null.                                        *)
(***************************************************************************)
EXTENDS Integers, Sequences, FiniteSets, TLC

\* ------------------------------------------------------------------------
\* Bounds of the model
\* ------------------------------------------------------------------------
MaxVersions == 2
MaxStore == 2

\* ------------------------------------------------------------------------
\* JavaScript values
\* ------------------------------------------------------------------------
Null == 0 - 999

NoStr == << >>

\* truthiness of a number-or-null and of a string-or-null
TruthyNum(n) == n # Null /\ n # 0

TruthyStr(s) == s # NoStr

Digits == {"0", "1", "2", "3", "4", "5", "6", "7", "8", "9"}

DigitVal(c) ==
    CASE c = "0" -> 0 [] c = "1" -> 1 [] c = "2" -> 2 [] c = "3" -> 3
      [] c = "4" -> 4 [] c = "5" -> 5 [] c = "6" -> 6 [] c = "7" -> 7
      [] c = "8" -> 8 [] c = "9" -> 9

\* String.prototype.includes: t occurs in s as a contiguous run of tokens
Includes(s, t) ==
    \E i \in 0..(Len(s) - Len(t)) : SubSeq(s, i + 1, i + Len(t)) = t

StartsWith(s, t) == Len(s) >= Len(t) /\ SubSeq(s, 1, Len(t)) = t

\* length of the longest prefix of s made of digits, from position i on
RECURSIVE DigitRun(_, _)
DigitRun(s, i) ==
    IF i <= Len(s) /\ s[i] \in Digits THEN 1 + DigitRun(s, i + 1) ELSE 0

RECURSIVE DigitsValue(_, _, _)
DigitsValue(s, i, n) ==
    IF n = 0 THEN 0
    ELSE DigitsValue(s, i, n - 1) * 10 + DigitVal(s[i + n - 1])

RECURSIVE Pow10(_)
Pow10(n) == IF n = 0 THEN 1 ELSE 10 * Pow10(n - 1)

\* parseInt(s): optional sign, then the longest run of digits; NaN without one
ParseInt(s) ==
    LET signed == Len(s) >= 1 /\ s[1] \in {"-", "+"}
        start == IF signed THEN 2 ELSE 1
        n == DigitRun(s, start)
        v == DigitsValue(s, start, n)
    IN  IF n = 0 THEN [nan |-> TRUE, val |-> 0]
        ELSE [nan |-> FALSE,
              val |-> IF signed /\ s[1] = "-" THEN 0 - v ELSE v]

\* parseFloat(s): optional sign, digits, optional dot and digits; the value is
\* num / den, exactly
ParseFloat(s) ==
    LET signed == Len(s) >= 1 /\ s[1] \in {"-", "+"}
        start == IF signed THEN 2 ELSE 1
        n == DigitRun(s, start)
        dot == start + n <= Len(s) /\ s[start + n] = "."
        m == IF dot THEN DigitRun(s, start + n + 1) ELSE 0
        whole == DigitsValue(s, start, n)
        frac == DigitsValue(s, start + n + 1, m)
        mag == whole * Pow10(m) + frac
    IN  IF n = 0 /\ m = 0 THEN [nan |-> TRUE, num |-> 0, den |-> 1]
        ELSE [nan |-> FALSE,
              num |-> IF signed /\ s[1] = "-" THEN 0 - mag ELSE mag,
              den |-> Pow10(m)]

\* f >= k and f < k for a parsed float f and an integer k (NaN compares false)
FGe(f, k) == ~f.nan /\ f.num >= k * f.den

FLt(f, k) == ~f.nan /\ f.num < k * f.den

\* ------------------------------------------------------------------------
\* Revisions and the fixed strings of the code
\* ------------------------------------------------------------------------
Revisions == {"v2.1", "v3.0", "v4.0", "v4.2", "v4.3", "v4.4", "v4.5", "v5.0"}

\* revisions whose handler has an older-version and a latest-version branch
BranchRevs == {"v4.2", "v4.3", "v4.4", "v4.5"}

ExamplePkg == <<"com.example.app">>

ChatGptPkg == <<"com.openai.chatgpt">>

Packages == {ExamplePkg, ChatGptPkg}

Latest == <<"latest">>

Https == "https://"

\* `https://apkpure.com/search?q=${q}`
ApkPureSearchUrl(q) == <<Https, "apkpure.com", "/search?q=">> \o q

\* `https://www.apkmirror.com/?s=${q}`
ApkMirrorSearchUrl(q) == <<Https, "www.apkmirror.com", "/?s=">> \o q

\* `https://www.apkmirror.com/?post_type=app_release&searchtype=app&s=${q}`
ApkMirrorAppSearchUrl(q) ==
    <<Https, "www.apkmirror.com", "/?post_type=app_release&searchtype=app&s=">> \o q

\* `https://www.apkmirror.com/?post_type=app_release&searchtype=apk&s=${q}`
ApkMirrorApkSearchUrl(q) ==
    <<Https, "www.apkmirror.com", "/?post_type=app_release&searchtype=apk&s=">> \o q

\* `https://www.apkmirror.com${path}` and `https://apkpure.com${path}`
ApkMirrorUrl(path) == <<Https, "www.apkmirror.com">> \o path

ApkPureUrl(path) == <<Https, "apkpure.com">> \o path

\* `https://d.apkpure.com/b/${format}/${pkg}?version=latest`
LatestUrl(format, pkg) ==
    <<Https, "d.apkpure.com", "/b/", format, "/">> \o pkg \o <<"?version=", "latest">>

\* `https://${host}/b/APK/${pkg}?versionCode=${code}`
VersionCodeUrl(host, pkg, code) ==
    <<Https, host, "/b/", "APK", "/">> \o pkg \o <<"?versionCode=", code>>

\* href.startsWith('http') ? href : `https://apkpure.com${href}`
AbsApkPure(href) == IF StartsWith(href, <<Https>>) THEN href ELSE ApkPureUrl(href)

AbsApkMirror(href) == IF StartsWith(href, <<Https>>) THEN href ELSE ApkMirrorUrl(href)

\* url.replace(/\/$/, '')
StripSlash(url) ==
    IF Len(url) > 0 /\ url[Len(url)] = "/" THEN SubSeq(url, 1, Len(url) - 1) ELSE url

\* ------------------------------------------------------------------------
\* DeviceProfile parser
\* ------------------------------------------------------------------------
\* parseInt(req.query.apiLevel) || null
ParseApiLevel(raw) ==
    LET p == ParseInt(raw) IN IF p.nan \/ p.val = 0 THEN Null ELSE p.val

\* getDeviceInfo(req); v4.0 does not read needsOlderVersion, v4.5 and v5.0 do
\* not read dpi, only v5.0 reads model and manufacturer
getDeviceInfo(r, q) ==
    [apiLevel |-> ParseApiLevel(q.apiLevel),
     arch |-> q.arch,
     dpi |-> IF r \in {"v4.5", "v5.0"} THEN NoStr ELSE q.dpi,
     model |-> IF r = "v5.0" THEN q.model ELSE NoStr,
     manufacturer |-> IF r = "v5.0" THEN q.manufacturer ELSE NoStr,
     needsOlderVersion |-> r # "v4.0" /\ q.needsOlderVersion = <<"true">>]

\* the exact tables of androidVersionToApi, as sets of <<label, api>>
MappingV42 ==
    { <<<<"4", ".", "4">>, 19>>, <<<<"5", ".", "0">>, 21>>, <<<<"5", ".", "1">>, 22>>,
      <<<<"6", ".", "0">>, 23>>, <<<<"7", ".", "0">>, 24>>, <<<<"7", ".", "1">>, 25>>,
      <<<<"8", ".", "0">>, 26>>, <<<<"8", ".", "1">>, 27>>, <<<<"9">>, 28>>,
      <<<<"9", ".", "0">>, 28>>, <<<<"1", "0">>, 29>>, <<<<"1", "1">>, 30>>,
      <<<<"1", "2">>, 31>>, <<<<"1", "2", "L">>, 32>>, <<<<"1", "3">>, 33>>,
      <<<<"1", "4">>, 34>>, <<<<"1", "5">>, 35>> }

MappingV44 ==
    MappingV42 \cup { <<<<"1", "0", ".", "0">>, 29>>, <<<<"1", "1", ".", "0">>, 30>> }

MappingV45 ==
    { <<<<"5", ".", "0">>, 21>>, <<<<"6", ".", "0">>, 23>>, <<<<"7", ".", "0">>, 24>>,
      <<<<"8", ".", "0">>, 26>>, <<<<"8", ".", "1">>, 27>>, <<<<"9">>, 28>>,
      <<<<"1", "0">>, 29>>, <<<<"1", "1">>, 30>>, <<<<"1", "2">>, 31>>,
      <<<<"1", "3">>, 33>>, <<<<"1", "4">>, 34>> }

InTable(m, s) == \E e \in m : e[1] = s

Lookup(m, s) == (CHOOSE e \in m : e[1] = s)[2]

\* the bucketing of v4.0, v4.2 and v4.3: half-open ranges, ascending
BucketRanges(f) ==
    CASE FGe(f, 4) /\ FLt(f, 5) -> 19
      [] FGe(f, 5) /\ FLt(f, 6) -> 21
      [] FGe(f, 6) /\ FLt(f, 7) -> 23
      [] FGe(f, 7) /\ FLt(f, 8) -> 24
      [] FGe(f, 8) /\ FLt(f, 9) -> 26
      [] FGe(f, 9) /\ FLt(f, 10) -> 28
      [] FGe(f, 10) /\ FLt(f, 11) -> 29
      [] FGe(f, 11) /\ FLt(f, 12) -> 30
      [] FGe(f, 12) /\ FLt(f, 13) -> 31
      [] FGe(f, 13) /\ FLt(f, 14) -> 33
      [] FGe(f, 14) /\ FLt(f, 15) -> 34
      [] FGe(f, 15) -> 35
      [] OTHER -> Null

\* the bucketing of v4.4 (from 15 down) and of v4.5 (from 14 down)
BucketDown(f, top) ==
    IF top >= 15 /\ FGe(f, 15) THEN 35
    ELSE IF FGe(f, 14) THEN 34
    ELSE IF FGe(f, 13) THEN 33
    ELSE IF FGe(f, 12) THEN 31
    ELSE IF FGe(f, 11) THEN 30
    ELSE IF FGe(f, 10) THEN 29
    ELSE IF FGe(f, 9) THEN 28
    ELSE IF FGe(f, 8) THEN 26
    ELSE IF FGe(f, 7) THEN 24
    ELSE IF FGe(f, 6) THEN 23
    ELSE IF FGe(f, 5) THEN 21
    ELSE Null

\* androidVersionToApi(versionStr) of revision r
androidVersionToApi(r, versionStr) ==
    LET m == IF r = "v4.4" THEN MappingV44
             ELSE IF r = "v4.5" THEN MappingV45 ELSE MappingV42
        f == ParseFloat(versionStr)
    IN  IF ~TruthyStr(versionStr) THEN Null
        ELSE IF InTable(m, versionStr) THEN Lookup(m, versionStr)
        ELSE IF r = "v4.4" THEN BucketDown(f, 15)
        ELSE IF r = "v4.5" THEN BucketDown(f, 14)
        ELSE BucketRanges(f)

\* Number.prototype.toString for an integer, as a sequence of characters
RECURSIVE NumberToString(_)
NumberToString(n) ==
    IF n < 0 THEN <<"-">> \o NumberToString(0 - n)
    ELSE IF n < 10 THEN <<CHOOSE c \in Digits : DigitVal(c) = n>>
    ELSE NumberToString(n \div 10) \o <<CHOOSE c \in Digits : DigitVal(c) = n % 10>>

\* the versions table of getAndroidVersionName, as a set of <<api, label>>
VersionNames ==
    { <<21, <<"5", ".", "0">> >>, <<22, <<"5", ".", "1">> >>, <<23, <<"6", ".", "0">> >>,
      <<24, <<"7", ".", "0">> >>, <<25, <<"7", ".", "1">> >>, <<26, <<"8", ".", "0">> >>,
      <<27, <<"8", ".", "1">> >>, <<28, <<"9">> >>, <<29, <<"1", "0">> >>,
      <<30, <<"1", "1">> >>, <<31, <<"1", "2">> >>, <<32, <<"1", "2", "L">> >>,
      <<33, <<"1", "3">> >>, <<34, <<"1", "4">> >>, <<35, <<"1", "5">> >> }

\* getAndroidVersionName(apiLevel) of revision r: the table, else the number
\* as a string; for null v4.2, v4.3 and v4.4 give 'Unknown', v4.5 and v5.0
\* give 'null', and v4.0 throws a TypeError
getAndroidVersionName(r, apiLevel) ==
    IF InTable(VersionNames, apiLevel) THEN Lookup(VersionNames, apiLevel)
    ELSE IF apiLevel # Null THEN NumberToString(apiLevel)
    ELSE IF r \in {"v4.5", "v5.0"} THEN <<"null">>
    ELSE IF r = "v4.0" THEN <<"TypeError">>
    ELSE <<"Unknown">>

\* ------------------------------------------------------------------------
\* Small helpers on sequences
\* ------------------------------------------------------------------------
\* index of the first element satisfying P, 0 when there is none (Array.find)
FirstIdx(s, P(_)) ==
    IF \E i \in 1..Len(s) : P(s[i])
    THEN CHOOSE i \in 1..Len(s) : P(s[i]) /\ \A j \in 1..(i - 1) : ~P(s[j])
    ELSE 0

SeqsUpTo(S, n) == UNION {[1..k -> S] : k \in 0..n}

\* ------------------------------------------------------------------------
\* State
\* ------------------------------------------------------------------------
VARIABLES
    rev,        \* the revision that is deployed
    pc,         \* position of the /apk-url handler: "idle", a step, or "done"
    pkg,        \* req.params.packageName
    dev,        \* deviceInfo
    loc,        \* the handler's local variables
    calls,      \* upstream requests issued by the current request, in order
    sent,       \* responses sent for the current request, in order
    firebaseInitialized,    \* v5.0: the module-level flag set by initFirebase()
    store,      \* v5.0: the children of apk_overrides, in key order
    logs        \* v5.0: the children of apk_override_logs

vars == <<rev, pc, pkg, dev, loc, calls, sent, firebaseInitialized, store, logs>>

NoDev == getDeviceInfo("v4.0", [apiLevel |-> NoStr, arch |-> NoStr, dpi |-> NoStr,
                                model |-> NoStr, manufacturer |-> NoStr,
                                needsOlderVersion |-> NoStr])

LocInit ==
    [appName |-> NoStr, minSdk |-> Null, url |-> NoStr, list |-> << >>, alt |-> << >>,
     idx |-> 0, now |-> 0]

\* one upstream request: who was asked, how, for what, and whether it answered
Call(site, method, url, ok) == [site |-> site, method |-> method, url |-> url, ok |-> ok]

\* res.json(body): the response leaves and the handler returns
Respond(body) ==
    [pc |-> "done", sent |-> Append(sent, [status |-> 200, body |-> body]), loc |-> loc]

\* the handler goes on to step p with local variables l
Goto(p, l) == [pc |-> p, sent |-> sent, loc |-> l]

\* ------------------------------------------------------------------------
\* Inputs: query strings and upstream answers
\* ------------------------------------------------------------------------
RawApiLevels ==
    {NoStr, <<"0">>, <<"-", "5">>, <<"2", "5">>, <<"3", "0">>, <<"3", "4">>,
     <<"3", "0", "a">>}

RawFlags == {NoStr, <<"true">>, <<"false">>}

Queries ==
    [apiLevel : RawApiLevels, arch : {NoStr}, dpi : {NoStr},
     model : {NoStr, <<"F21">>, <<"Pixel">>}, manufacturer : {NoStr},
     needsOlderVersion : RawFlags]

Titles == {<<"My", " ", "App">>}

AndroidVersions ==
    {NoStr, <<"Varies", " with device">>, <<"1", "2">>, <<"5", ".", "0">>}

\* gplay.app(): it throws, or returns title and androidVersion
MetaAnswers == [ok : BOOLEAN, title : Titles, androidVersion : AndroidVersions]

\* ------------------------------------------------------------------------
\* Response bodies of the latest-version branch
\* ------------------------------------------------------------------------
\* a faulty variant of LatestBody that forgets canRetryWithOlderVersion; the
\* latest-branch property C4_LatestBranchOrder must reject it
LatestBodyNoRetry(r, format, p, appName) ==
    [success |-> TRUE, source |-> "apkpure", downloadUrl |-> LatestUrl(format, p),
     packageName |-> p, format |-> format, version |-> Latest]

\* a faulty variant of LatestBody that marks the latest version as an older
\* one; C29_OlderMarkOnlyFromOlderBranch must reject it
LatestBodyMarkedOlder(r, format, p, appName) ==
    [success |-> TRUE, source |-> "apkpure", downloadUrl |-> LatestUrl(format, p),
     packageName |-> p, format |-> format, version |-> Latest, compatible |-> TRUE,
     canRetryWithOlderVersion |-> TRUE, isOlderVersion |-> TRUE]

\* the body returned when the header-only probe of a latest URL answered
LatestBody(r, format, p, appName) ==
    LET base == [success |-> TRUE, source |-> "apkpure",
                 downloadUrl |-> LatestUrl(format, p), packageName |-> p,
                 format |-> format, version |-> Latest]
    IN  IF r = "v5.0"
        THEN base @@ [compatible |-> TRUE, appName |-> appName, isOverride |-> FALSE]
        ELSE IF r = "v4.5"
        THEN base @@ [compatible |-> TRUE, canRetryWithOlderVersion |-> TRUE]
        ELSE base @@ [canRetryWithOlderVersion |-> TRUE]

\* tryApkMirror(packageName) after its search page was parsed
tryApkMirrorResult(p, appLink) ==
    IF ~TruthyStr(appLink) THEN [success |-> FALSE]
    ELSE [success |-> TRUE, source |-> "apkmirror",
          downloadUrl |-> ApkMirrorUrl(appLink), packageName |-> p]

\* { ...apkmirrorResult, canRetryWithOlderVersion: true }
WithRetry(result) == result @@ [canRetryWithOlderVersion |-> TRUE]

ManualDownload(p) ==
    [apkpure |-> ApkPureSearchUrl(p), apkmirror |-> ApkMirrorSearchUrl(p)]

\* the body sent when every attempt of the latest-version branch failed
\* the body of the handler's outer catch: res.json({ success: false,
\* error: error.message })
RequestErrorBody == [success |-> FALSE, error |-> "error.message"]

\* a faulty variant of LatestFailBody in which the failure of the last probe
\* is thrown on to the outer catch; C24_FailuresNeverReachOuterCatch must
\* reject it
LatestFailBodyRethrown(r, p) == RequestErrorBody

LatestFailBody(r, p) ==
    IF r \in {"v4.5", "v5.0"}
    THEN [success |-> FALSE, error |-> "Could not find APK download", packageName |-> p]
    ELSE [success |-> FALSE, error |-> "Could not find APK download",
          manualDownload |-> ManualDownload(p), packageName |-> p]

\* ------------------------------------------------------------------------
\* Branch decision
\* ------------------------------------------------------------------------
\* minSdkFromStore after the metadata lookup answered m (v5.0 reads the title only)
\* a faulty variant of MinSdkFromStore that assumes API 32 when the lookup
\* gave no usable Android version; C17_UnknownMinSdkTakesLatest must reject it
MinSdkFromStoreAssumed(r, m) ==
    IF r # "v5.0" /\ m.ok /\ TruthyStr(m.androidVersion) /\ ~Includes(m.androidVersion, <<"Varies">>)
    THEN androidVersionToApi(r, m.androidVersion)
    ELSE 32

MinSdkFromStore(r, m) ==
    IF r # "v5.0" /\ m.ok /\ TruthyStr(m.androidVersion) /\ ~Includes(m.androidVersion, <<"Varies">>)
    THEN androidVersionToApi(r, m.androidVersion)
    ELSE Null

\* appName after the metadata lookup answered m
AppNameFrom(p, m) == IF m.ok /\ TruthyStr(m.title) THEN m.title ELSE p

\* the condition of the older-version branch: mustFindOlderVersion in v4.2, v4.3
\* and v4.4, `needsOlder && deviceInfo.apiLevel` in v4.5
mustFindOlderVersion(r, d, minSdkFromStore) ==
    IF r = "v4.5"
    THEN d.needsOlderVersion /\ TruthyNum(d.apiLevel)
    ELSE \/ d.needsOlderVersion
         \/ /\ TruthyNum(minSdkFromStore)
            /\ TruthyNum(d.apiLevel)
            /\ minSdkFromStore > d.apiLevel

\* ------------------------------------------------------------------------
\* v4.2: older-version search on APKMirror and on APKPure
\* ------------------------------------------------------------------------
MirrorLinks == {NoStr, <<"/apk/", "dev/app/">>}

\* a row of APKMirror's version list: the link, the number after "minAPI", the
\* version after "Android", the dotted version label (absent: Null or NoStr)
MirrorRows ==
    [link : MirrorLinks, minApi : {Null, 31}, android : {NoStr, <<"7", ".", "0">>},
     version : {<<"2", ".", "0">>}]

\* the versions array findOlderVersionApkMirror builds from the rows
MirrorVersions42(r, rows) ==
    LET kept == SelectSeq(rows, LAMBDA row : TruthyStr(row.link))
    IN  [i \in 1..Len(kept) |->
            [version |-> kept[i].version,
             minSdk |-> IF kept[i].minApi # Null THEN kept[i].minApi
                        ELSE IF TruthyStr(kept[i].android)
                        THEN androidVersionToApi(r, kept[i].android)
                        ELSE Null,
             link |-> ApkMirrorUrl(kept[i].link)]]

\* versions.find(v => !v.minSdk || v.minSdk <= deviceInfo.apiLevel)
CompatibleIdx(versions, d) ==
    FirstIdx(versions, LAMBDA v : ~TruthyNum(v.minSdk) \/ v.minSdk <= d.apiLevel)

\* what findOlderVersionApkMirror returns once the app page listed `rows`
findOlderVersionApkMirrorResult(r, p, d, appName, appUrl, rows) ==
    LET versions == MirrorVersions42(r, rows)
        c == IF TruthyNum(d.apiLevel) /\ Len(versions) > 0
             THEN CompatibleIdx(versions, d) ELSE 0
    IN  IF c > 0
        THEN [success |-> TRUE, source |-> "apkmirror_older",
              downloadUrl |-> versions[c].link, packageName |-> p,
              appName |-> appName, version |-> versions[c].version,
              minSdk |-> versions[c].minSdk, compatible |-> TRUE,
              isOlderVersion |-> TRUE]
        ELSE IF Len(versions) > 0
        THEN [success |-> TRUE, source |-> "apkmirror", downloadUrl |-> appUrl,
              packageName |-> p]
        ELSE [success |-> FALSE]

\* anchors of APKPure's search page
PureAnchors == {NoStr, <<"/other-app/", "com.other">>} \cup {<<"/my-app/">> \o p \o <<"/">> : p \in Packages}

\* appPath: the first href containing the package name, else the first href
AppPath42(p, hrefs) ==
    LET own == FirstIdx(hrefs, LAMBDA h : TruthyStr(h) /\ Includes(h, p))
        any == FirstIdx(hrefs, LAMBDA h : TruthyStr(h))
    IN  IF own > 0 THEN hrefs[own] ELSE IF any > 0 THEN hrefs[any] ELSE NoStr

\* a row of APKPure's versions page: link, the version after "Android" or
\* "Requires", the dotted version label
PureRows ==
    [link : {NoStr, <<"/my-app/download/1">>},
     req : {NoStr, <<"1", "2">>, <<"5", ".", "0">>},
     version : {<<"2", ".", "0">>}]

PureVersions42(r, rows) ==
    LET kept == SelectSeq(rows, LAMBDA row : TruthyStr(row.link) /\ TruthyStr(row.version))
    IN  [i \in 1..Len(kept) |->
            [version |-> kept[i].version,
             minSdk |-> IF TruthyStr(kept[i].req)
                        THEN androidVersionToApi(r, kept[i].req) ELSE Null,
             link |-> AbsApkPure(kept[i].link)]]

\* what findOlderVersionApkPure returns once the versions page listed `rows`
findOlderVersionApkPureResult(r, p, d, appName, rows) ==
    LET versions == PureVersions42(r, rows)
        c == IF TruthyNum(d.apiLevel) /\ Len(versions) > 0
             THEN CompatibleIdx(versions, d) ELSE 0
    IN  IF c > 0
        THEN [success |-> TRUE, source |-> "apkpure_older",
              downloadUrl |-> versions[c].link, packageName |-> p,
              appName |-> appName, version |-> versions[c].version,
              minSdk |-> versions[c].minSdk, compatible |-> TRUE,
              isOlderVersion |-> TRUE]
        ELSE [success |-> FALSE]

\* the body v4.2 sends when neither catalog produced an older version
OlderFallback42(p, appName) ==
    [success |-> TRUE, source |-> "apkmirror_manual",
     downloadUrl |-> ApkMirrorApkSearchUrl(p), packageName |-> p,
     appName |-> appName, compatible |-> TRUE, isOlderVersion |-> TRUE]

\* ------------------------------------------------------------------------
\* v4.3 and v4.5: hard-coded older versions and version-code probing
\* ------------------------------------------------------------------------
OneMB == 1000000

\* a header-only probe: it throws (or answers >= 400), or answers with a
\* declared content length
Probes == {[ok |-> FALSE, size |-> 0]} \cup [ok : {TRUE}, size : {0, OneMB, OneMB + 1}]

\* KNOWN_OLDER_VERSIONS[packageName].olderVersions of v4.3 (empty: no entry)
KNOWN_OLDER_VERSIONS(p) ==
    IF p = ChatGptPkg
    THEN << [maxApiLevel |-> 31, version |-> <<"1", ".", "2024", ".", "122">>,
             downloadUrl |-> VersionCodeUrl("d.apkpure.com", ChatGptPkg, "10241220"),
             minSdk |-> 24, format |-> "APK"],
            [maxApiLevel |-> 30, version |-> <<"1", ".", "2024", ".", "052">>,
             downloadUrl |-> VersionCodeUrl("d.apkpure.com", ChatGptPkg, "10240520"),
             minSdk |-> 24, format |-> "APK"],
            [maxApiLevel |-> 28, version |-> <<"1", ".", "2023", ".", "352">>,
             downloadUrl |-> VersionCodeUrl("d.apkpure.com", ChatGptPkg, "10233520"),
             minSdk |-> 21, format |-> "APK"] >>
    ELSE << >>

\* knownApp && deviceInfo.apiLevel, then olderVersions.find(...): its index or 0
KnownIdx43(p, d) ==
    IF TruthyNum(d.apiLevel)
    THEN FirstIdx(KNOWN_OLDER_VERSIONS(p),
                  LAMBDA v : /\ d.apiLevel <= v.maxApiLevel
                             /\ (~TruthyNum(v.minSdk) \/ d.apiLevel >= v.minSdk))
    ELSE 0

KnownBody43(p, v) ==
    [success |-> TRUE, source |-> "known_older_version", downloadUrl |-> v.downloadUrl,
     packageName |-> p, appName |-> <<"ChatGPT">>, version |-> v.version,
     minSdk |-> v.minSdk, format |-> v.format, compatible |-> TRUE,
     isOlderVersion |-> TRUE]

\* versionCodesToTry of tryApkPureOlderVersion (v4.3)
VersionCodes43 == <<"10241220", "10240520", "10233520", "10232000", "10231000">>

\* versionCodes of tryOlderVersionCodes (v4.5)
VersionCodes45 ==
    <<"10243000", "10242000", "10241000", "10240000", "10235000", "10230000",
      "10225000", "10220000", "10215000", "10210000", "10205000", "10200000">>

VersionCodes(r) == IF r = "v4.5" THEN VersionCodes45 ELSE VersionCodes43

\* the URL probed for a version code: d.apkpure.com in v4.3, d.apkpure.net in v4.5
ProbeUrl(r, p, code) ==
    VersionCodeUrl(IF r = "v4.5" THEN "d.apkpure.net" ELSE "d.apkpure.com", p, code)

EncodeURIComponent(s) == <<"encodeURIComponent(">> \o s \o <<")">>

\* `https://kosher-store-backend.onrender.com/proxy-download?url=...&pkg=...&ver=...`
ProxyUrl(direct, p, ver) ==
    <<Https, "kosher-store-backend.onrender.com", "/proxy-download?url=">>
        \o EncodeURIComponent(direct) \o <<"&pkg=">> \o p \o <<"&ver=">> \o ver

\* a faulty variant of ProbeAccepts that takes any answered probe, whatever
\* its declared length; C35_FirstVerifiedCodeReturned must reject it
ProbeAcceptsAnySize(o) == o.ok

\* the probe's test: contentLength > 1000000
ProbeAccepts(o) == o.ok /\ o.size > OneMB

\* the body returned for a version code whose probe was accepted
CodeBody(r, p, code) ==
    IF r = "v4.5"
    THEN [success |-> TRUE, compatible |-> TRUE, source |-> "apkpure_versioncode",
          downloadUrl |-> ProxyUrl(ProbeUrl(r, p, code), p, <<code>>),
          packageName |-> p, version |-> <<code>>, format |-> "APK",
          isOlderVersion |-> TRUE]
    ELSE [success |-> TRUE, source |-> "apkpure_older",
          downloadUrl |-> ProbeUrl(r, p, code), packageName |-> p,
          version |-> <<code>>, format |-> "APK", compatible |-> TRUE,
          isOlderVersion |-> TRUE]

\* OLDER_VERSIONS_DB[packageName].olderVersions of v4.5 (empty: no entry)
OLDER_VERSIONS_DB(p) ==
    IF p = ChatGptPkg
    THEN << [version |-> <<"1", ".", "2024", ".", "311">>, minApi |-> 24, maxApi |-> 31,
             versionCode |-> "10243110"],
            [version |-> <<"1", ".", "2024", ".", "220">>, minApi |-> 24, maxApi |-> 30,
             versionCode |-> "10242200"],
            [version |-> <<"1", ".", "2024", ".", "150">>, minApi |-> 21, maxApi |-> 29,
             versionCode |-> "10241500"] >>
    ELSE << >>

\* knownApp.olderVersions.find(v => apiLevel >= v.minApi && apiLevel <= v.maxApi)
DbIdx45(p, d) ==
    FirstIdx(OLDER_VERSIONS_DB(p),
             LAMBDA v : d.apiLevel >= v.minApi /\ d.apiLevel <= v.maxApi)

DbBody45(p, v) ==
    [success |-> TRUE, compatible |-> TRUE, source |-> "older_version_db",
     downloadUrl |-> ProxyUrl(VersionCodeUrl("d.apkpure.net", p, v.versionCode),
                              p, v.version),
     packageName |-> p, appName |-> <<"ChatGPT">>, version |-> v.version,
     minSdk |-> v.minApi, format |-> "APK", isOlderVersion |-> TRUE]

\* the body sent when the older-version branch of v4.3 or v4.5 found nothing
OlderFailBody(r, p, appName, d) ==
    LET base == [success |-> FALSE, compatible |-> FALSE,
                 error |-> "No older compatible version was found", packageName |-> p,
                 appName |-> appName, deviceApiLevel |-> d.apiLevel]
    IN  IF r = "v4.3"
        THEN base @@ [suggestion |-> "This app may not have an older version"]
        ELSE base

\* hrefs found on an APKMirror version page or download page
PageLinks43 ==
    {NoStr, <<"/apk/dev/app/download/">>,
     <<Https, "www.apkmirror.com", "/apk/dev/app/file.apk">>}

\* a row of APKMirror's version list as tryApkMirrorOlderVersion reads it
MirrorRows43 == [link : MirrorLinks \cup {<<"/store/", "x">>}, minApi : {Null, 31}]

\* versionLinks: the rows with a link that contains "/apk/"
VersionLinks43(rows) ==
    LET kept == SelectSeq(rows, LAMBDA row : TruthyStr(row.link)
                                             /\ Includes(row.link, <<"/apk/">>))
    IN  [i \in 1..Len(kept) |->
            [link |-> ApkMirrorUrl(kept[i].link), minSdk |-> kept[i].minApi]]

\* the loop over versionLinks skips a version known to need a higher API level:
\* the first index from i on that is not skipped, Len + 1 when there is none
RECURSIVE NextVersion43(_, _, _)
NextVersion43(list, i, d) ==
    IF i > Len(list) THEN i
    ELSE IF TruthyNum(list[i].minSdk) /\ TruthyNum(d.apiLevel)
            /\ list[i].minSdk > d.apiLevel
    THEN NextVersion43(list, i + 1, d)
    ELSE i

MirrorOlderBody43(p, appName, apkLink, v) ==
    [success |-> TRUE, source |-> "apkmirror_older", downloadUrl |-> AbsApkMirror(apkLink),
     packageName |-> p, appName |-> appName, minSdk |-> v.minSdk,
     compatible |-> TRUE, isOlderVersion |-> TRUE]

\* ------------------------------------------------------------------------
\* v4.4: older-version search on APKPure's versions page
\* ------------------------------------------------------------------------
MaxVersions44 == MaxVersions + 2

FiveMB == 5000000

\* a header-only probe of a direct link and its declared content length
Probes44 == {[ok |-> FALSE, size |-> 0]} \cup [ok : {TRUE}, size : {0, FiveMB, FiveMB + 1}]

\* appName.toLowerCase().replace(/[^a-z0-9]+/g, '-'), token by token
SlugToken(t) ==
    CASE t = "My" -> "my"
      [] t = " " -> "-"
      [] t = "App" -> "app"
      [] t = "com.example.app" -> "com-example-app"
      [] t = "com.openai.chatgpt" -> "com-openai-chatgpt"
      [] OTHER -> t

Slug(s) == [i \in 1..Len(s) |-> SlugToken(s[i])]

\* an anchor of the search page: its href, and whether it matches the selector
\* '.first-info a, .search-res a, a[href*="/search"]'
Anchors44 ==
    {[href |-> <<Https, "apkpure.com", "/my-app/">> \o p, cls |-> FALSE] : p \in Packages}
    \cup {[href |-> <<"/other-app/", "com.other">>, cls |-> TRUE],
          [href |-> <<"/search", "?q=x">>, cls |-> TRUE],
          [href |-> NoStr, cls |-> TRUE]}

\* the search request answers with a status below 500 and a page, or throws
SearchAnswers44 ==
    {[ok |-> FALSE, status |-> 0, anchors |-> << >>],
     [ok |-> TRUE, status |-> 403, anchors |-> << >>]}
    \cup [ok : {TRUE}, status : {200, 404}, anchors : SeqsUpTo(Anchors44, 2)]

\* appPageUrl of findOlderVersionFromApkPure
AppPageUrl44(p, appName, anchors) ==
    LET own == FirstIdx(anchors, LAMBDA a : Includes(a.href, p)
                                           /\ Includes(a.href, <<"apkpure.com">>))
        first == FirstIdx(anchors, LAMBDA a : a.cls)
        firstAppLink == IF first > 0 THEN anchors[first].href ELSE NoStr
    IN  IF own > 0 THEN anchors[own].href
        ELSE IF TruthyStr(firstAppLink) /\ ~Includes(firstAppLink, <<"/search">>)
        THEN AbsApkPure(firstAppLink)
        ELSE <<Https, "apkpure.com", "/">> \o Slug(appName) \o <<"/">> \o p

\* a row of the versions page: link, the number after "Android" or "Requires",
\* the dotted version label
Rows44 ==
    {[link |-> <<"/my-app/download/2">>, req |-> NoStr, version |-> <<"2", ".", "0">>],
     [link |-> <<"/my-app/download/1">>, req |-> <<"1", "2">>,
      version |-> <<"1", ".", "0">>]}

\* the direct download links the page text may hold (directLinkMatch)
DirectLinks44 ==
    LET x == LatestUrl("XAPK", ExamplePkg)
        a == VersionCodeUrl("d.apkpure.com", ExamplePkg, "100")
    IN  {<< >>, <<x>>, <<x, a>>, <<x, a, x, a, x, a>>}

\* the versions page answers with a status below 500 and a page, or throws
VersionsAnswers44 ==
    {[ok |-> FALSE, status |-> 0, rows |-> << >>, direct |-> << >>],
     [ok |-> TRUE, status |-> 404, rows |-> << >>, direct |-> << >>]}
    \cup [ok : {TRUE}, status : {200}, rows : SeqsUpTo(Rows44, MaxVersions44),
          direct : DirectLinks44]

Versions44(r, rows) ==
    LET kept == SelectSeq(rows, LAMBDA row : TruthyStr(row.link) /\ TruthyStr(row.version))
    IN  [i \in 1..Len(kept) |->
            [version |-> kept[i].version,
             minSdk |-> IF TruthyStr(kept[i].req)
                        THEN androidVersionToApi(r, kept[i].req) ELSE Null,
             downloadLink |-> AbsApkPure(kept[i].link)]]

\* version.split('.')
RECURSIVE SplitDots(_)
SplitDots(s) ==
    LET i == FirstIdx(s, LAMBDA c : c = ".")
    IN  IF i = 0 THEN <<s>>
        ELSE <<SubSeq(s, 1, i - 1)>> \o SplitDots(SubSeq(s, i + 1, Len(s)))

\* Number(part) || 0
NumberOrZero(part) ==
    IF Len(part) > 0 /\ DigitRun(part, 1) = Len(part)
    THEN DigitsValue(part, 1, Len(part)) ELSE 0

PartAt(parts, i) == IF i <= Len(parts) THEN NumberOrZero(parts[i]) ELSE 0

\* the comparator handed to versions.sort: the first non-zero
\* (partsB[i] || 0) - (partsA[i] || 0), or 0
RECURSIVE CompareParts(_, _, _)
CompareParts(partsA, partsB, i) ==
    IF i > Len(partsA) /\ i > Len(partsB) THEN 0
    ELSE IF PartAt(partsB, i) - PartAt(partsA, i) # 0
    THEN PartAt(partsB, i) - PartAt(partsA, i)
    ELSE CompareParts(partsA, partsB, i + 1)

\* a faulty variant of CompareVersions with the operands exchanged, which
\* sorts oldest first; C20_SortNewestFirst must reject it
CompareVersionsAscending(a, b) ==
    CompareParts(SplitDots(b.version), SplitDots(a.version), 1)

CompareVersions(a, b) == CompareParts(SplitDots(a.version), SplitDots(b.version), 1)

\* Array.prototype.sort is stable: x goes behind every element it does not
\* precede
InsertVersion(sorted, x) ==
    LET j == FirstIdx(sorted, LAMBDA e : CompareVersions(e, x) > 0)
    IN  IF j = 0 THEN Append(sorted, x)
        ELSE SubSeq(sorted, 1, j - 1) \o <<x>> \o SubSeq(sorted, j, Len(sorted))

RECURSIVE SortVersions(_)
SortVersions(versions) ==
    IF versions = << >> THEN << >>
    ELSE InsertVersion(SortVersions(SubSeq(versions, 1, Len(versions) - 1)),
                       versions[Len(versions)])

\* the loop over the sorted versions asks for a download page when minSdk is
\* known and fits, or when it is unknown and indexOf(ver) > 2: the first such
\* index from i on, Len + 1 when there is none
RECURSIVE NextVersion44(_, _, _)
NextVersion44(list, i, d) ==
    IF i > Len(list) THEN i
    ELSE IF \/ TruthyNum(list[i].minSdk) /\ list[i].minSdk <= d.apiLevel
            \/ ~TruthyNum(list[i].minSdk) /\ i - 1 > 2
    THEN i
    ELSE NextVersion44(list, i + 1, d)

\* a version's download page: it throws, or holds an anchor to d.apkpure.com,
\* a download button, a direct URL in its text (each possibly absent)
DownloadPages44 ==
    {[ok |-> FALSE, a |-> NoStr, btn |-> NoStr, re |-> NoStr]}
    \cup [ok : {TRUE},
          a : {NoStr, LatestUrl("XAPK", ExamplePkg)},
          btn : {NoStr, <<"/my-app/", "download">>},
          re : {NoStr, VersionCodeUrl("d.apkpure.com", ExamplePkg, "100")}]

\* getApkPureDownloadUrl(pageUrl): the URL, or NoStr for null
getApkPureDownloadUrl(page) ==
    LET downloadUrl == IF TruthyStr(page.a) THEN page.a
                       ELSE IF TruthyStr(page.btn) THEN page.btn
                       ELSE page.re
    IN  IF page.ok /\ TruthyStr(downloadUrl) /\ Includes(downloadUrl, <<"d.apkpure.com">>)
        THEN downloadUrl ELSE NoStr

FormatOf(url) == IF Includes(url, <<"XAPK">>) THEN "XAPK" ELSE "APK"

DirectBody44(p, appName, url) ==
    [success |-> TRUE, source |-> "apkpure_older", downloadUrl |-> url,
     packageName |-> p, appName |-> appName, format |-> FormatOf(url),
     compatible |-> TRUE, isOlderVersion |-> TRUE]

\* the two success bodies of the loop: with minSdk when it was known
VersionBody44(p, appName, downloadUrl, ver) ==
    LET base == [success |-> TRUE, source |-> "apkpure_older", downloadUrl |-> downloadUrl,
                 packageName |-> p, appName |-> appName, version |-> ver.version,
                 format |-> FormatOf(downloadUrl), compatible |-> TRUE,
                 isOlderVersion |-> TRUE]
    IN  IF TruthyNum(ver.minSdk) THEN base @@ [minSdk |-> ver.minSdk] ELSE base

\* the body v4.4 sends when findOlderVersionFromApkPure found nothing
OlderFailBody44(p, appName, d, minSdkFromStore) ==
    [success |-> FALSE, compatible |-> FALSE,
     error |-> "Could not find an older compatible version automatically",
     packageName |-> p, appName |-> appName, deviceApiLevel |-> d.apiLevel,
     requiredApiLevel |-> IF TruthyNum(minSdkFromStore) THEN minSdkFromStore ELSE 32,
     manualDownload |-> [apkpure |-> ApkPureSearchUrl(EncodeURIComponent(appName))]]

\* ------------------------------------------------------------------------
\* v5.0: manual overrides
\* ------------------------------------------------------------------------
\* String.prototype.toLowerCase, token by token
LowerToken(t) ==
    CASE t = "F21" -> "f21"
      [] t = " Pro" -> " pro"
      [] t = "Pixel" -> "pixel"
      [] t = "DuoQin" -> "duoqin"
      [] t = "Acme" -> "acme"
      [] OTHER -> t

ToLower(s) == [i \in 1..Len(s) |-> LowerToken(s[i])]

\* an entry without a targeting object
NoTargeting ==
    [present |-> FALSE, minApiLevel |-> Null, maxApiLevel |-> Null,
     deviceModels |-> << >>, manufacturers |-> << >>]

Targeting(minApi, maxApi, models, mfgs) ==
    [present |-> TRUE, minApiLevel |-> minApi, maxApiLevel |-> maxApi,
     deviceModels |-> models, manufacturers |-> mfgs]

\* a faulty variant of getSpecificityScore that weighs the manufacturer rule
\* above the device-model rule; C9_MostSpecificMatch must reject it
getSpecificityScoreSwapped(targeting) ==
    IF ~targeting.present THEN 0
    ELSE (IF Len(targeting.deviceModels) > 0 THEN 50 ELSE 0)
         + (IF Len(targeting.manufacturers) > 0 THEN 100 ELSE 0)
         + (IF TruthyNum(targeting.minApiLevel) \/ TruthyNum(targeting.maxApiLevel)
            THEN 10 ELSE 0)

getSpecificityScore(targeting) ==
    IF ~targeting.present THEN 0
    ELSE (IF Len(targeting.deviceModels) > 0 THEN 100 ELSE 0)
         + (IF Len(targeting.manufacturers) > 0 THEN 50 ELSE 0)
         + (IF TruthyNum(targeting.minApiLevel) \/ TruthyNum(targeting.maxApiLevel)
            THEN 10 ELSE 0)

\* a.toLowerCase().includes(b.toLowerCase()) || b.toLowerCase().includes(a.toLowerCase())
EitherIncludes(a, b) ==
    Includes(ToLower(a), ToLower(b)) \/ Includes(ToLower(b), ToLower(a))

matchesTargeting(targeting, deviceInfo) ==
    IF ~targeting.present THEN TRUE
    ELSE IF /\ TruthyNum(targeting.minApiLevel) /\ TruthyNum(deviceInfo.apiLevel)
            /\ deviceInfo.apiLevel < targeting.minApiLevel
    THEN FALSE
    ELSE IF /\ TruthyNum(targeting.maxApiLevel) /\ TruthyNum(deviceInfo.apiLevel)
            /\ deviceInfo.apiLevel > targeting.maxApiLevel
    THEN FALSE
    ELSE IF /\ Len(targeting.deviceModels) > 0 /\ TruthyStr(deviceInfo.model)
            /\ ~\E i \in 1..Len(targeting.deviceModels) :
                    EitherIncludes(deviceInfo.model, targeting.deviceModels[i])
    THEN FALSE
    ELSE IF /\ Len(targeting.manufacturers) > 0 /\ TruthyStr(deviceInfo.manufacturer)
            /\ ~\E i \in 1..Len(targeting.manufacturers) :
                    EitherIncludes(deviceInfo.manufacturer, targeting.manufacturers[i])
    THEN FALSE
    ELSE TRUE

\* the snapshot of the query by package name: the matching children in key
\* order, each with its key as id
Snapshot(st, p) ==
    LET keys == SelectSeq([i \in 1..Len(st) |-> i], LAMBDA i : st[i].packageName = p)
    IN  [k \in 1..Len(keys) |-> st[keys[k]] @@ [id |-> keys[k]]]

\* overrides.sort((a, b) => score(b.targeting) - score(a.targeting)), stable
InsertOverride(sorted, x) ==
    LET j == FirstIdx(sorted, LAMBDA e : getSpecificityScore(x.targeting)
                                          - getSpecificityScore(e.targeting) > 0)
    IN  IF j = 0 THEN Append(sorted, x)
        ELSE SubSeq(sorted, 1, j - 1) \o <<x>> \o SubSeq(sorted, j, Len(sorted))

RECURSIVE SortOverrides(_)
SortOverrides(overrides) ==
    IF overrides = << >> THEN << >>
    ELSE InsertOverride(SortOverrides(SubSeq(overrides, 1, Len(overrides) - 1)),
                        overrides[Len(overrides)])

\* a faulty variant of Skipped that forgets the expiry test;
\* C10_NeverDisabledOrExpired must reject it
SkippedDisabledOnly(override, now) == override.status.enabled = FALSE

\* a faulty variant of Skipped that also passes over an entry that was
\* installed before; C27_IdempotentWithinExpiry must reject it
SkippedOnceUsed(override, now) ==
    \/ override.status.enabled = FALSE
    \/ override.status.installCount > 0
    \/ /\ TruthyNum(override.expiration.expiresAt)
       /\ now > override.expiration.expiresAt

\* the loop's two `continue` tests: disabled, or expired at time now
Skipped(override, now) ==
    \/ override.status.enabled = FALSE
    \/ /\ TruthyNum(override.expiration.expiresAt)
       /\ now > override.expiration.expiresAt

\* null
NoOverride == [id |-> 0]

\* findMatchingOverride(packageName, deviceInfo) against store st at time now
findMatchingOverride(fb, st, p, deviceInfo, now) ==
    IF ~fb THEN NoOverride
    ELSE LET overrides == SortOverrides(Snapshot(st, p))
             i == FirstIdx(overrides,
                           LAMBDA o : ~Skipped(o, now)
                                      /\ matchesTargeting(o.targeting, deviceInfo))
         IN  IF i = 0 THEN NoOverride ELSE overrides[i]

\* a faulty variant of OverrideBody that reads a field the entry does not have;
\* C1_SuccessCarriesDownloadUrl must reject it
OverrideBodyNoUrl(p, o) ==
    [success |-> TRUE, compatible |-> TRUE, source |-> "manual_override",
     downloadUrl |-> NoStr, packageName |-> p, appName |-> o.appName,
     version |-> o.override.version,
     format |-> IF o.override.format # "" THEN o.override.format ELSE "APK",
     isOverride |-> TRUE, overrideId |-> o.id]

\* the body /apk-url sends for a matched override
OverrideBody(p, o) ==
    [success |-> TRUE, compatible |-> TRUE, source |-> "manual_override",
     downloadUrl |-> o.override.downloadUrl, packageName |-> p, appName |-> o.appName,
     version |-> o.override.version,
     format |-> IF o.override.format # "" THEN o.override.format ELSE "APK",
     isOverride |-> TRUE, overrideId |-> o.id]

\* Date.now() at the lookup, and the expiry timestamps an entry may carry
Clock == {1, 2}

ExpiryTimes == {Null, 1, 2}

Entry(p, targeting, url, format, enabled, expiresAt) ==
    [packageName |-> p, appName |-> <<"My", " ", "App">>, targeting |-> targeting,
     override |-> [downloadUrl |-> url, version |-> <<"1", ".", "0">>, format |-> format],
     status |-> [enabled |-> enabled, installCount |-> 0],
     expiration |-> [expiresAt |-> expiresAt]]

OverrideUrl == <<Https, "files.example.org", "/app-1.0.apk">>

\* the entries the store of a deployed v5.0 may hold
StoreEntries ==
    {Entry(ExamplePkg, Targeting(Null, 29, << >>, << >>), OverrideUrl, "", TRUE, Null),
     Entry(ExamplePkg, Targeting(Null, Null, << <<"F21", " Pro">> >>, << >>),
           OverrideUrl \o <<"?f21">>, "XAPK", TRUE, 2),
     Entry(ChatGptPkg, NoTargeting, OverrideUrl \o <<"?gpt">>, "", FALSE, Null)}

\* ------------------------------------------------------------------------
\* v4.0: the four methods; v3.0 and v2.1: the catalogs in turn
\* ------------------------------------------------------------------------
\* `https://apkpure.com${appLink}versions` when appLink ends with "/", else
\* `https://apkpure.com${appLink}/versions`
VersionsUrl40(appLink) ==
    IF appLink[Len(appLink)] = "/" THEN ApkPureUrl(appLink) \o <<"versions">>
    ELSE ApkPureUrl(appLink) \o <<"/versions">>

\* what tryApkPureWithCompatibility returns once the versions page listed rows
tryApkPureWithCompatibilityResult(r, p, d, rows) ==
    LET versions == PureVersions42(r, rows)
        c == CompatibleIdx(versions, d)
    IN  IF c > 0
        THEN [success |-> TRUE, source |-> "apkpure_compatible",
              downloadUrl |-> versions[c].link, packageName |-> p,
              version |-> versions[c].version, minSdk |-> versions[c].minSdk,
              compatible |-> TRUE, deviceApiLevel |-> d.apiLevel, format |-> "XAPK"]
        ELSE IF Len(versions) > 0
        THEN [success |-> FALSE, compatible |-> FALSE,
              error |-> "No compatible version available", packageName |-> p]
        ELSE [success |-> FALSE]

\* a row of APKMirror's variant table: link, architecture, the number after
\* "minAPI" or "Android", density (each possibly absent)
VariantRows40 ==
    [link : {NoStr, <<"/apk/dev/app/variant/">>}, arch : {NoStr},
     req : {NoStr, <<"2", "4">>, <<"1", "2", ".", "0">>}, dpi : {NoStr}]

\* minApiMatch[1].includes('.') ? androidVersionToApi(...) : parseInt(...)
MinSdkOfVariant(r, req) ==
    IF ~TruthyStr(req) THEN Null
    ELSE IF Includes(req, <<".">>) THEN androidVersionToApi(r, req)
    ELSE ParseInt(req).val

Variants40(r, rows) ==
    LET kept == SelectSeq(rows, LAMBDA row : TruthyStr(row.link))
    IN  [i \in 1..Len(kept) |->
            [arch |-> kept[i].arch, minSdk |-> MinSdkOfVariant(r, kept[i].req),
             dpi |-> kept[i].dpi, link |-> ApkMirrorUrl(kept[i].link)]]

\* a faulty variant of ScoreVariant whose penalty for a minSdk above the
\* device is 100; C23_TooNewVariantNeverSelected must reject it
ScoreVariantMildPenalty(v, d) ==
    (IF ~TruthyStr(d.arch) THEN 0
     ELSE IF v.arch = d.arch THEN 100
     ELSE IF v.arch \in {<<"universal">>, <<"nodpi">>} THEN 50
     ELSE IF d.arch = <<"arm64-v8a">> /\ v.arch = <<"armeabi-v7a">> THEN 30
     ELSE 0)
    + (IF ~(TruthyNum(d.apiLevel) /\ TruthyNum(v.minSdk)) THEN 0
       ELSE IF v.minSdk <= d.apiLevel THEN 50 ELSE 0 - 100)
    + (IF ~(TruthyStr(d.dpi) /\ TruthyStr(v.dpi)) THEN 0
       ELSE IF v.dpi = d.dpi THEN 20
       ELSE IF v.dpi = <<"nodpi">> THEN 10
       ELSE 0)

\* the score tryApkMirrorWithCompatibility gives a variant
ScoreVariant(v, d) ==
    (IF ~TruthyStr(d.arch) THEN 0
     ELSE IF v.arch = d.arch THEN 100
     ELSE IF v.arch \in {<<"universal">>, <<"nodpi">>} THEN 50
     ELSE IF d.arch = <<"arm64-v8a">> /\ v.arch = <<"armeabi-v7a">> THEN 30
     ELSE 0)
    + (IF ~(TruthyNum(d.apiLevel) /\ TruthyNum(v.minSdk)) THEN 0
       ELSE IF v.minSdk <= d.apiLevel THEN 50 ELSE 0 - 1000)
    + (IF ~(TruthyStr(d.dpi) /\ TruthyStr(v.dpi)) THEN 0
       ELSE IF v.dpi = d.dpi THEN 20
       ELSE IF v.dpi = <<"nodpi">> THEN 10
       ELSE 0)

\* scoredVariants.sort((a, b) => b.score - a.score), stable
InsertVariant(sorted, x) ==
    LET j == FirstIdx(sorted, LAMBDA e : x.score - e.score > 0)
    IN  IF j = 0 THEN Append(sorted, x)
        ELSE SubSeq(sorted, 1, j - 1) \o <<x>> \o SubSeq(sorted, j, Len(sorted))

RECURSIVE SortVariants(_)
SortVariants(scored) ==
    IF scored = << >> THEN << >>
    ELSE InsertVariant(SortVariants(SubSeq(scored, 1, Len(scored) - 1)),
                       scored[Len(scored)])

MirrorPageBody(p, appUrl) ==
    [success |-> TRUE, source |-> "apkmirror", downloadUrl |-> appUrl, packageName |-> p]

\* what tryApkMirrorWithCompatibility returns once the app page listed rows
tryApkMirrorWithCompatibilityResult(r, p, d, appUrl, rows) ==
    LET variants == Variants40(r, rows)
        scoredVariants ==
            SortVariants([i \in 1..Len(variants) |->
                             variants[i] @@ [score |-> ScoreVariant(variants[i], d)]])
        best == FirstIdx(scoredVariants, LAMBDA v : v.score > 0)
    IN  IF best > 0
        THEN [success |-> TRUE, source |-> "apkmirror",
              downloadUrl |-> scoredVariants[best].link, packageName |-> p,
              variant |-> [arch |-> scoredVariants[best].arch,
                           minSdk |-> scoredVariants[best].minSdk,
                           dpi |-> scoredVariants[best].dpi],
              compatible |-> TRUE]
        ELSE IF /\ Len(scoredVariants) > 0
                /\ \A i \in 1..Len(scoredVariants) : scoredVariants[i].score < 0
        THEN [success |-> FALSE, compatible |-> FALSE,
              error |-> "No compatible variant"]
        ELSE MirrorPageBody(p, appUrl)

\* tryApkPureBasic's result for a reachable latest URL, after Method 3 has
\* added its compatibility warning
BasicBody40(format, p, d, minSdkFromStore) ==
    LET result == [success |-> TRUE, source |-> "apkpure_direct",
                   downloadUrl |-> LatestUrl(format, p), packageName |-> p,
                   format |-> format]
    IN  IF /\ TruthyNum(minSdkFromStore) /\ TruthyNum(d.apiLevel)
           /\ minSdkFromStore > d.apiLevel
        THEN result @@ [compatible |-> FALSE,
                        compatibilityWarning |-> "This app requires a newer Android"]
        ELSE result

ApkComboAppUrl(p) == <<Https, "apkcombo.com", "/app/">> \o p \o <<"/">>

ApkMonkAppUrl(p) == <<Https, "www.apkmonk.com", "/app/">> \o p \o <<"/">>

ApkComboSearchUrl(p) == <<Https, "apkcombo.com", "/search/">> \o p

ApkComboDownloader(p) == <<Https, "apkcombo.com", "/downloader/#package=">> \o p

ComboBody40(p) ==
    [success |-> TRUE, source |-> "apkcombo", downloadUrl |-> ApkComboAppUrl(p),
     packageName |-> p]

\* the manual-download bodies of v4.0 and of v3.0
ManualBody(r, p) ==
    [success |-> FALSE, error |-> "Could not find direct APK link",
     manualDownload |->
        IF r = "v4.0"
        THEN ManualDownload(p) @@ [apkcombo |-> ApkComboSearchUrl(p)]
        ELSE ManualDownload(p) @@ [apkmonk |-> ApkMonkAppUrl(p)],
     packageName |-> p]

\* hrefs a scraped page may yield for one of v3.0's selectors
Hrefs30 ==
    {NoStr, <<"/my-app/", "download">>, <<Https, "files.example.org", "/my-app.apk">>}

\* v2.1 getApkComboUrl: the first a.content href that contains the last
\* segment of the package name, NoStr when there is none
ComboAnchors21 == {NoStr, <<"/my-app/", "app">>, <<"/other/", "thing">>}

LastSegment(p) ==
    IF p = ExamplePkg THEN <<"app">> ELSE IF p = ChatGptPkg THEN <<"chatgpt">> ELSE p

getApkComboUrlResult(p, hrefs) ==
    LET i == FirstIdx(hrefs, LAMBDA h : TruthyStr(h) /\ Includes(h, LastSegment(p)))
    IN  IF i > 0
        THEN (IF StartsWith(hrefs[i], <<Https>>) THEN hrefs[i]
              ELSE <<Https, "apkcombo.com">> \o hrefs[i]) \o <<"/download/apk">>
        ELSE ApkComboDownloader(p)

\* possibleUrls of v2.1 getApkPureDownloadPage
PossibleUrls21(p) ==
    << <<Https, "apkpure.com", "/">> \o LastSegment(p) \o <<"/">> \o p \o <<"/download">>,
       <<Https, "apkpure.com", "/app/">> \o p \o <<"/download">> >>

Body21(source, url, p) ==
    [success |-> TRUE, source |-> source, downloadUrl |-> url, version |-> NoStr,
     packageName |-> p]

\* ------------------------------------------------------------------------
\* The /apk-url handler, one action per awaited upstream request
\* ------------------------------------------------------------------------
Step(r) == pc' = r.pc /\ sent' = r.sent /\ loc' = r.loc

\* a faulty variant of OlderStart that sends v4.2 to APKPure without asking
\* APKMirror; C8_CatalogOrderPerRevision must reject it
OlderStartPureFirst(l) ==
    IF rev = "v4.2" THEN Goto("o42_pure_search", l)
    ELSE IF rev = "v4.3"
    THEN IF KnownIdx43(pkg, dev) > 0
         THEN Goto("o43_known", [l EXCEPT !.idx = KnownIdx43(pkg, dev)])
         ELSE Goto("older_codes", [l EXCEPT !.idx = 1])
    ELSE IF rev = "v4.4" THEN Goto("o44_search", l)
    ELSE IF DbIdx45(pkg, dev) > 0
    THEN Respond(DbBody45(pkg, OLDER_VERSIONS_DB(pkg)[DbIdx45(pkg, dev)]))
    ELSE Goto("older_codes", [l EXCEPT !.idx = 1])

\* where the older-version branch of the deployed revision starts
OlderStart(l) ==
    IF rev = "v4.2" THEN Goto("o42_mirror_search", l)
    ELSE IF rev = "v4.3"
    THEN IF KnownIdx43(pkg, dev) > 0
         THEN Goto("o43_known", [l EXCEPT !.idx = KnownIdx43(pkg, dev)])
         ELSE Goto("older_codes", [l EXCEPT !.idx = 1])
    ELSE IF rev = "v4.4" THEN Goto("o44_search", l)
    ELSE IF DbIdx45(pkg, dev) > 0
    THEN Respond(DbBody45(pkg, OLDER_VERSIONS_DB(pkg)[DbIdx45(pkg, dev)]))
    ELSE Goto("older_codes", [l EXCEPT !.idx = 1])

\* where the handler goes once the metadata lookup has returned
AfterMeta(l) ==
    IF rev = "v4.0"
    THEN IF TruthyNum(dev.apiLevel) THEN Goto("v40_pure_search", l)
         ELSE Goto("v40_mirror_search", l)
    ELSE IF rev \in BranchRevs /\ mustFindOlderVersion(rev, dev, l.minSdk)
    THEN OlderStart(l)
    ELSE Goto("latest_xapk", l)

\* a faulty variant of FirstStep that asks the store even when it is not
\* configured; C14_UnconfiguredStoreSkipped must reject it
FirstStepAlwaysStore(r, fb) ==
    IF r = "v5.0" THEN "override_lookup"
    ELSE IF r = "v3.0" THEN "v30_pure_search"
    ELSE IF r = "v2.1" THEN "v21_combo"
    ELSE "meta"

\* a faulty variant of FirstStep that starts v5.0 at the metadata lookup;
\* C12_OverrideBeforeResolution must reject it
FirstStepMetaFirst(r, fb) ==
    IF r = "v3.0" THEN "v30_pure_search"
    ELSE IF r = "v2.1" THEN "v21_combo"
    ELSE "meta"

\* the first awaited request of the handler
FirstStep(r, fb) ==
    IF r = "v5.0" /\ fb THEN "override_lookup"
    ELSE IF r = "v3.0" THEN "v30_pure_search"
    ELSE IF r = "v2.1" THEN "v21_combo"
    ELSE "meta"

Init ==
    /\ rev \in Revisions
    /\ pc = "idle"
    /\ pkg = NoStr
    /\ dev = NoDev
    /\ loc = LocInit
    /\ calls = << >>
    /\ sent = << >>
    /\ firebaseInitialized \in (IF rev = "v5.0" THEN BOOLEAN ELSE {FALSE})
    /\ store \in (IF firebaseInitialized THEN SeqsUpTo(StoreEntries, MaxStore)
                  ELSE {<< >>})
    /\ logs = << >>

\* a request arrives: app.get('/apk-url/:packageName') up to its first await
Request ==
    /\ pc = "idle"
    /\ \E p \in Packages, q \in Queries :
           /\ pkg' = p
           /\ dev' = IF rev \in {"v2.1", "v3.0"} THEN NoDev ELSE getDeviceInfo(rev, q)
           /\ loc' = [LocInit EXCEPT !.appName = p]
           /\ calls' = << >>
           /\ sent' = << >>
           /\ pc' = FirstStep(rev, firebaseInitialized)
           /\ UNCHANGED <<rev, firebaseInitialized, store, logs>>

\* await gplay.app({ appId: packageName }) and the branch decision
MetaFetch ==
    /\ pc = "meta"
    /\ \E m \in MetaAnswers :
           /\ calls' = Append(calls, Call("gplay", "GET", pkg, m.ok))
           /\ Step(AfterMeta([loc EXCEPT !.appName = AppNameFrom(pkg, m),
                                         !.minSdk = MinSdkFromStore(rev, m)]))
           /\ UNCHANGED <<rev, pkg, dev, firebaseInitialized, store, logs>>

\* await axios.head(xapkUrl)
HeadLatestXapk ==
    /\ pc = "latest_xapk"
    /\ \E ok \in BOOLEAN :
           /\ calls' = Append(calls, Call("apkpure", "HEAD", LatestUrl("XAPK", pkg), ok))
           /\ Step(IF ok /\ rev = "v4.0"
                   THEN Respond(BasicBody40("XAPK", pkg, dev, loc.minSdk))
                   ELSE IF ok THEN Respond(LatestBody(rev, "XAPK", pkg, loc.appName))
                   ELSE Goto("latest_apk", loc))
           /\ UNCHANGED <<rev, pkg, dev, firebaseInitialized, store, logs>>

\* a faulty variant of HeadLatestApk in which v4.5 and v5.0 send nothing when
\* the last probe failed; C36_ExactlyOneResponse must reject it
HeadLatestApkNoAnswer ==
    /\ pc = "latest_apk"
    /\ \E ok \in BOOLEAN :
           /\ calls' = Append(calls, Call("apkpure", "HEAD", LatestUrl("APK", pkg), ok))
           /\ Step(IF ok /\ rev = "v4.0"
                   THEN Respond(BasicBody40("APK", pkg, dev, loc.minSdk))
                   ELSE IF ok THEN Respond(LatestBody(rev, "APK", pkg, loc.appName))
                   ELSE IF rev = "v4.0" THEN Goto("v40_combo", loc)
                   ELSE IF rev \in {"v4.5", "v5.0"} THEN Goto("returned", loc)
                   ELSE Goto("latest_mirror", loc))
           /\ UNCHANGED <<rev, pkg, dev, firebaseInitialized, store, logs>>

\* await axios.head(apkUrl)
HeadLatestApk ==
    /\ pc = "latest_apk"
    /\ \E ok \in BOOLEAN :
           /\ calls' = Append(calls, Call("apkpure", "HEAD", LatestUrl("APK", pkg), ok))
           /\ Step(IF ok /\ rev = "v4.0"
                   THEN Respond(BasicBody40("APK", pkg, dev, loc.minSdk))
                   ELSE IF ok THEN Respond(LatestBody(rev, "APK", pkg, loc.appName))
                   ELSE IF rev = "v4.0" THEN Goto("v40_combo", loc)
                   ELSE IF rev \in {"v4.5", "v5.0"} THEN Respond(LatestFailBody(rev, pkg))
                   ELSE Goto("latest_mirror", loc))
           /\ UNCHANGED <<rev, pkg, dev, firebaseInitialized, store, logs>>

\* await tryApkMirror(packageName): one search request
TryApkMirror ==
    /\ pc = "latest_mirror"
    /\ \E ok \in BOOLEAN, appLink \in MirrorLinks :
           /\ calls' = Append(calls, Call("apkmirror", "GET", ApkMirrorAppSearchUrl(pkg), ok))
           /\ LET result == IF ok THEN tryApkMirrorResult(pkg, appLink) ELSE [success |-> FALSE]
              IN  Step(IF result.success THEN Respond(WithRetry(result))
                       ELSE Respond(LatestFailBody(rev, pkg)))
           /\ UNCHANGED <<rev, pkg, dev, firebaseInitialized, store, logs>>

\* v4.2 findOlderVersionApkMirror: the search request
MirrorSearch42 ==
    /\ pc = "o42_mirror_search"
    /\ \E ok \in BOOLEAN, appLink \in MirrorLinks :
           /\ calls' = Append(calls, Call("apkmirror", "GET", ApkMirrorAppSearchUrl(pkg), ok))
           /\ Step(IF ok /\ TruthyStr(appLink)
                   THEN Goto("o42_mirror_app", [loc EXCEPT !.url = ApkMirrorUrl(appLink)])
                   ELSE Goto("o42_pure_search", loc))
           /\ UNCHANGED <<rev, pkg, dev, firebaseInitialized, store, logs>>

\* v4.2 findOlderVersionApkMirror: the app page, and the handler's test of the
\* function's result
MirrorAppPage42 ==
    /\ pc = "o42_mirror_app"
    /\ \E ok \in BOOLEAN, rows \in SeqsUpTo(MirrorRows, MaxVersions) :
           /\ calls' = Append(calls, Call("apkmirror", "GET", loc.url, ok))
           /\ LET result == IF ok
                            THEN findOlderVersionApkMirrorResult(rev, pkg, dev, loc.appName,
                                                                 loc.url, rows)
                            ELSE [success |-> FALSE]
              IN  Step(IF result.success THEN Respond(result)
                       ELSE Goto("o42_pure_search", loc))
           /\ UNCHANGED <<rev, pkg, dev, firebaseInitialized, store, logs>>

\* v4.2 findOlderVersionApkPure: the search request
PureSearch42 ==
    /\ pc = "o42_pure_search"
    /\ \E ok \in BOOLEAN, hrefs \in SeqsUpTo(PureAnchors, 2) :
           /\ calls' = Append(calls, Call("apkpure", "GET", ApkPureSearchUrl(pkg), ok))
           /\ LET appPath == AppPath42(pkg, hrefs)
              IN  Step(IF ok /\ TruthyStr(appPath)
                       THEN Goto("o42_pure_versions",
                                 [loc EXCEPT !.url = StripSlash(AbsApkPure(appPath))
                                                     \o <<"/versions">>])
                       ELSE Respond(OlderFallback42(pkg, loc.appName)))
           /\ UNCHANGED <<rev, pkg, dev, firebaseInitialized, store, logs>>

\* v4.2 findOlderVersionApkPure: the versions page, and the end of the branch
PureVersionsPage42 ==
    /\ pc = "o42_pure_versions"
    /\ \E ok \in BOOLEAN, rows \in SeqsUpTo(PureRows, MaxVersions) :
           /\ calls' = Append(calls, Call("apkpure", "GET", loc.url, ok))
           /\ LET result == IF ok
                            THEN findOlderVersionApkPureResult(rev, pkg, dev, loc.appName, rows)
                            ELSE [success |-> FALSE]
              IN  Step(IF result.success THEN Respond(result)
                       ELSE Respond(OlderFallback42(pkg, loc.appName)))
           /\ UNCHANGED <<rev, pkg, dev, firebaseInitialized, store, logs>>

\* v4.3: the header-only check of the known older version's URL
KnownHead43 ==
    /\ pc = "o43_known"
    /\ \E ok \in BOOLEAN :
           /\ LET v == KNOWN_OLDER_VERSIONS(pkg)[loc.idx]
              IN  /\ calls' = Append(calls, Call("apkpure", "HEAD", v.downloadUrl, ok))
                  /\ Step(IF ok THEN Respond(KnownBody43(pkg, v))
                          ELSE Goto("older_codes", [loc EXCEPT !.idx = 1]))
           /\ UNCHANGED <<rev, pkg, dev, firebaseInitialized, store, logs>>

\* tryApkPureOlderVersion (v4.3) and tryOlderVersionCodes (v4.5): one probe of
\* the loop over the version codes, and what the handler does when the loop ends
CodeProbe ==
    /\ pc = "older_codes"
    /\ \E o \in Probes :
           /\ LET code == VersionCodes(rev)[loc.idx]
              IN  /\ calls' = Append(calls, Call("apkpure", "HEAD", ProbeUrl(rev, pkg, code),
                                                 ProbeAccepts(o)))
                  /\ Step(IF ProbeAccepts(o) THEN Respond(CodeBody(rev, pkg, code))
                          ELSE IF loc.idx < Len(VersionCodes(rev))
                          THEN Goto("older_codes", [loc EXCEPT !.idx = loc.idx + 1])
                          ELSE IF rev = "v4.5"
                          THEN Respond(OlderFailBody(rev, pkg, loc.appName, dev))
                          ELSE Goto("o43_mirror_search", loc))
           /\ UNCHANGED <<rev, pkg, dev, firebaseInitialized, store, logs>>

\* v4.3 tryApkMirrorOlderVersion: the search request
MirrorSearch43 ==
    /\ pc = "o43_mirror_search"
    /\ \E ok \in BOOLEAN, appLink \in MirrorLinks :
           /\ calls' = Append(calls, Call("apkmirror", "GET", ApkMirrorAppSearchUrl(pkg), ok))
           /\ Step(IF ok /\ TruthyStr(appLink)
                   THEN Goto("o43_mirror_app", [loc EXCEPT !.url = ApkMirrorUrl(appLink)])
                   ELSE Respond(OlderFailBody(rev, pkg, loc.appName, dev)))
           /\ UNCHANGED <<rev, pkg, dev, firebaseInitialized, store, logs>>

\* what tryApkMirrorOlderVersion does with versionLinks from index i on: it
\* requests the next version that is not skipped, or gives up
VersionLoop43(list, i) ==
    LET n == NextVersion43(list, i, dev)
    IN  IF n <= Len(list)
        THEN Goto("o43_version_page", [loc EXCEPT !.list = list, !.idx = n])
        ELSE Respond(OlderFailBody(rev, pkg, loc.appName, dev))

\* v4.3 tryApkMirrorOlderVersion: the app page
MirrorAppPage43 ==
    /\ pc = "o43_mirror_app"
    /\ \E ok \in BOOLEAN, rows \in SeqsUpTo(MirrorRows43, MaxVersions) :
           /\ calls' = Append(calls, Call("apkmirror", "GET", loc.url, ok))
           /\ Step(IF ok THEN VersionLoop43(VersionLinks43(rows), 1)
                   ELSE Respond(OlderFailBody(rev, pkg, loc.appName, dev)))
           /\ UNCHANGED <<rev, pkg, dev, firebaseInitialized, store, logs>>

\* v4.3 tryApkMirrorOlderVersion: the page of one version
MirrorVersionPage43 ==
    /\ pc = "o43_version_page"
    /\ \E ok \in BOOLEAN, downloadPageLink \in PageLinks43 :
           /\ calls' = Append(calls, Call("apkmirror", "GET", loc.list[loc.idx].link, ok))
           /\ Step(IF ok /\ TruthyStr(downloadPageLink)
                   THEN Goto("o43_download_page",
                             [loc EXCEPT !.url = AbsApkMirror(downloadPageLink)])
                   ELSE VersionLoop43(loc.list, loc.idx + 1))
           /\ UNCHANGED <<rev, pkg, dev, firebaseInitialized, store, logs>>

\* v4.3 tryApkMirrorOlderVersion: the download page of one version
MirrorDownloadPage43 ==
    /\ pc = "o43_download_page"
    /\ \E ok \in BOOLEAN, apkLink \in PageLinks43 :
           /\ calls' = Append(calls, Call("apkmirror", "GET", loc.url, ok))
           /\ Step(IF ok /\ TruthyStr(apkLink)
                   THEN Respond(MirrorOlderBody43(pkg, loc.appName, apkLink, loc.list[loc.idx]))
                   ELSE VersionLoop43(loc.list, loc.idx + 1))
           /\ UNCHANGED <<rev, pkg, dev, firebaseInitialized, store, logs>>

\* v4.4 findOlderVersionFromApkPure: the search request
PureSearch44 ==
    /\ pc = "o44_search"
    /\ \E o \in SearchAnswers44 :
           /\ calls' = Append(calls, Call("apkpure", "GET",
                                          ApkPureSearchUrl(EncodeURIComponent(pkg)), o.ok))
           /\ Step(IF o.ok /\ o.status # 403
                   THEN Goto("o44_versions",
                             [loc EXCEPT !.url = StripSlash(AppPageUrl44(pkg, loc.appName,
                                                                         o.anchors))
                                                 \o <<"/versions">>])
                   ELSE Respond(OlderFailBody44(pkg, loc.appName, dev, loc.minSdk)))
           /\ UNCHANGED <<rev, pkg, dev, firebaseInitialized, store, logs>>

\* v4.4: the loop over the versions from index i on, entered only when
\* deviceInfo.apiLevel && versions.length > 0
VersionLoop44(list, i) ==
    LET n == NextVersion44(list, i, dev)
    IN  IF TruthyNum(dev.apiLevel) /\ n <= Len(list)
        THEN Goto("o44_download", [loc EXCEPT !.list = list, !.idx = n])
        ELSE Respond(OlderFailBody44(pkg, loc.appName, dev, loc.minSdk))

\* v4.4 findOlderVersionFromApkPure: the versions page
PureVersionsPage44 ==
    /\ pc = "o44_versions"
    /\ \E o \in VersionsAnswers44 :
           /\ calls' = Append(calls, Call("apkpure", "GET", loc.url, o.ok))
           /\ Step(IF ~(o.ok /\ o.status = 200)
                   THEN Respond(OlderFailBody44(pkg, loc.appName, dev, loc.minSdk))
                   ELSE IF Len(o.direct) > 1
                   THEN Goto("o44_direct",
                             [loc EXCEPT !.list = Versions44(rev, o.rows), !.alt = o.direct,
                                         !.idx = 2])
                   ELSE VersionLoop44(SortVersions(Versions44(rev, o.rows)), 1))
           /\ UNCHANGED <<rev, pkg, dev, firebaseInitialized, store, logs>>

\* v4.4: one header-only probe of the loop over directLinkMatch[1..min(len,5)-1]
DirectProbe44 ==
    /\ pc = "o44_direct"
    /\ \E o \in Probes44 :
           /\ LET url == loc.alt[loc.idx]
                  accepted == o.ok /\ o.size > FiveMB
              IN  /\ calls' = Append(calls, Call("apkpure", "HEAD", url, accepted))
                  /\ Step(IF accepted THEN Respond(DirectBody44(pkg, loc.appName, url))
                          ELSE IF loc.idx + 1 <= Len(loc.alt) /\ loc.idx + 1 <= 5
                          THEN Goto("o44_direct", [loc EXCEPT !.idx = loc.idx + 1])
                          ELSE VersionLoop44(SortVersions(loc.list), 1))
           /\ UNCHANGED <<rev, pkg, dev, firebaseInitialized, store, logs>>

\* v4.4: getApkPureDownloadUrl for the version the loop stands at
DownloadPage44 ==
    /\ pc = "o44_download"
    /\ \E page \in DownloadPages44 :
           /\ LET ver == loc.list[loc.idx]
                  downloadUrl == getApkPureDownloadUrl(page)
              IN  /\ calls' = Append(calls, Call("apkpure", "GET", ver.downloadLink, page.ok))
                  /\ Step(IF TruthyStr(downloadUrl)
                          THEN Respond(VersionBody44(pkg, loc.appName, downloadUrl, ver))
                          ELSE VersionLoop44(loc.list, loc.idx + 1))
           /\ UNCHANGED <<rev, pkg, dev, firebaseInitialized, store, logs>>

\* v5.0: await findMatchingOverride(packageName, deviceInfo); a failing store
\* read is caught inside and gives null
OverrideLookup ==
    /\ pc = "override_lookup"
    /\ \E ok \in BOOLEAN, now \in Clock :
       /\ calls' = Append(calls, Call("firebase", "GET", <<"apk_overrides">>, ok))
       /\ LET override == IF ok
                          THEN findMatchingOverride(firebaseInitialized, store, pkg, dev,
                                                    now)
                          ELSE NoOverride
          IN  Step(IF override.id # 0
                   THEN Goto("override_log", [loc EXCEPT !.idx = override.id,
                                                         !.now = now])
                   ELSE Goto("meta", [loc EXCEPT !.now = now]))
       /\ UNCHANGED <<rev, pkg, dev, firebaseInitialized, store, logs>>

\* a faulty variant of OverrideLog in which a failing push reaches the
\* handler's catch; C33_AccountingIsBestEffort must reject it
OverrideLogThrows ==
    /\ pc = "override_log"
    /\ \E ok \in BOOLEAN :
       /\ calls' = Append(calls, Call("firebase", "PUSH", <<"apk_override_logs">>, ok))
       /\ logs' = IF ok
                  THEN Append(logs, [overrideId |-> loc.idx, packageName |-> pkg,
                                     action |-> "override_matched"])
                  ELSE logs
       /\ Step(IF ok THEN Goto("override_incr", loc) ELSE Respond(RequestErrorBody))
       /\ UNCHANGED <<rev, pkg, dev, firebaseInitialized, store>>

\* v5.0: await logOverrideUsage(override.id, packageName, deviceInfo,
\* 'override_matched'); a failing push is caught inside
OverrideLog ==
    /\ pc = "override_log"
    /\ \E ok \in BOOLEAN :
       /\ calls' = Append(calls, Call("firebase", "PUSH", <<"apk_override_logs">>, ok))
       /\ logs' = IF ok
                  THEN Append(logs, [overrideId |-> loc.idx, packageName |-> pkg,
                                     action |-> "override_matched"])
                  ELSE logs
       /\ Step(Goto("override_incr", loc))
       /\ UNCHANGED <<rev, pkg, dev, firebaseInitialized, store>>

\* a faulty variant of OverrideIncrement whose update adds two;
\* C11_OverrideReturnedAndCountedOnce must reject it
OverrideIncrementTwice ==
    /\ pc = "override_incr"
    /\ \E ok \in BOOLEAN :
       /\ calls' = Append(calls, Call("firebase", "UPDATE", <<"apk_overrides">>, ok))
       /\ store' = IF ok
                   THEN [store EXCEPT ![loc.idx].status.installCount = @ + 2]
                   ELSE store
       /\ Step(Respond(OverrideBody(pkg, store[loc.idx] @@ [id |-> loc.idx])))
       /\ UNCHANGED <<rev, pkg, dev, firebaseInitialized, logs>>

\* v5.0: await incrementOverrideCount(override.id), with the increment done by
\* the store, and the response; a failing update is caught inside
OverrideIncrement ==
    /\ pc = "override_incr"
    /\ \E ok \in BOOLEAN :
       /\ calls' = Append(calls, Call("firebase", "UPDATE", <<"apk_overrides">>, ok))
       /\ store' = IF ok
                   THEN [store EXCEPT ![loc.idx].status.installCount = @ + 1]
                   ELSE store
       /\ Step(Respond(OverrideBody(pkg, store[loc.idx] @@ [id |-> loc.idx])))
       /\ UNCHANGED <<rev, pkg, dev, firebaseInitialized, logs>>

\* v4.0 tryApkPureWithCompatibility: the search request
PureSearch40 ==
    /\ pc = "v40_pure_search"
    /\ \E ok \in BOOLEAN, appLink \in {NoStr, <<"/my-app/", "/">>, <<"/my-app">>} :
       /\ calls' = Append(calls, Call("apkpure", "GET", ApkPureSearchUrl(pkg), ok))
       /\ Step(IF ok /\ TruthyStr(appLink)
               THEN Goto("v40_pure_versions", [loc EXCEPT !.url = VersionsUrl40(appLink)])
               ELSE Goto("v40_mirror_search", loc))
       /\ UNCHANGED <<rev, pkg, dev, firebaseInitialized, store, logs>>

\* v4.0 tryApkPureWithCompatibility: the versions page
PureVersionsPage40 ==
    /\ pc = "v40_pure_versions"
    /\ \E ok \in BOOLEAN, rows \in SeqsUpTo(PureRows, MaxVersions) :
       /\ calls' = Append(calls, Call("apkpure", "GET", loc.url, ok))
       /\ LET result == IF ok THEN tryApkPureWithCompatibilityResult(rev, pkg, dev, rows)
                        ELSE [success |-> FALSE]
          IN  Step(IF result.success THEN Respond(result)
                   ELSE Goto("v40_mirror_search", loc))
       /\ UNCHANGED <<rev, pkg, dev, firebaseInitialized, store, logs>>

\* v4.0 tryApkMirrorWithCompatibility: the search request
MirrorSearch40 ==
    /\ pc = "v40_mirror_search"
    /\ \E ok \in BOOLEAN, appLink \in MirrorLinks :
       /\ calls' = Append(calls, Call("apkmirror", "GET", ApkMirrorAppSearchUrl(pkg), ok))
       /\ Step(IF ~(ok /\ TruthyStr(appLink)) THEN Goto("latest_xapk", loc)
               ELSE IF TruthyNum(dev.apiLevel) \/ TruthyStr(dev.arch)
               THEN Goto("v40_mirror_app", [loc EXCEPT !.url = ApkMirrorUrl(appLink)])
               ELSE Respond(MirrorPageBody(pkg, ApkMirrorUrl(appLink))))
       /\ UNCHANGED <<rev, pkg, dev, firebaseInitialized, store, logs>>

\* v4.0 tryApkMirrorWithCompatibility: the app page with its variants
MirrorAppPage40 ==
    /\ pc = "v40_mirror_app"
    /\ \E ok \in BOOLEAN, rows \in SeqsUpTo(VariantRows40, MaxVersions) :
       /\ calls' = Append(calls, Call("apkmirror", "GET", loc.url, ok))
       /\ LET result == IF ok
                        THEN tryApkMirrorWithCompatibilityResult(rev, pkg, dev, loc.url,
                                                                 rows)
                        ELSE MirrorPageBody(pkg, loc.url)
          IN  Step(IF result.success THEN Respond(result)
                   ELSE Goto("latest_xapk", loc))
       /\ UNCHANGED <<rev, pkg, dev, firebaseInitialized, store, logs>>

\* v4.0 tryApkCombo, and the manual links when it fails too
Combo40 ==
    /\ pc = "v40_combo"
    /\ \E ok \in BOOLEAN, status \in {200, 204} :
       /\ calls' = Append(calls, Call("apkcombo", "GET", ApkComboAppUrl(pkg), ok))
       /\ Step(IF ok /\ status = 200 THEN Respond(ComboBody40(pkg))
               ELSE Respond(ManualBody(rev, pkg)))
       /\ UNCHANGED <<rev, pkg, dev, firebaseInitialized, store, logs>>

\* v3.0 tryApkPure: the search request
PureSearch30 ==
    /\ pc = "v30_pure_search"
    /\ \E ok \in BOOLEAN, appPath \in Hrefs30 :
       /\ calls' = Append(calls, Call("apkpure", "GET", ApkPureSearchUrl(pkg), ok))
       /\ Step(IF ok /\ TruthyStr(appPath)
               THEN Goto("v30_pure_app", [loc EXCEPT !.url = AbsApkPure(appPath)])
               ELSE Goto("v30_mirror_search", loc))
       /\ UNCHANGED <<rev, pkg, dev, firebaseInitialized, store, logs>>

\* v3.0 tryApkPure: the app page
PureAppPage30 ==
    /\ pc = "v30_pure_app"
    /\ \E ok \in BOOLEAN, downloadPage \in Hrefs30 :
       /\ calls' = Append(calls, Call("apkpure", "GET", loc.url, ok))
       /\ Step(IF ~ok THEN Goto("v30_mirror_search", loc)
               ELSE Goto("v30_pure_download",
                         [loc EXCEPT !.url = IF TruthyStr(downloadPage)
                                             THEN AbsApkPure(downloadPage)
                                             ELSE AbsApkPure(loc.url \o <<"/download">>)]))
       /\ UNCHANGED <<rev, pkg, dev, firebaseInitialized, store, logs>>

\* v3.0 tryApkPure: the download page
PureDownloadPage30 ==
    /\ pc = "v30_pure_download"
    /\ \E ok \in BOOLEAN, apkLink \in Hrefs30 :
       /\ calls' = Append(calls, Call("apkpure", "GET", loc.url, ok))
       /\ Step(IF ~ok THEN Goto("v30_mirror_search", loc)
               ELSE IF TruthyStr(apkLink)
               THEN Respond([success |-> TRUE, source |-> "apkpure",
                             downloadUrl |-> AbsApkPure(apkLink), packageName |-> pkg])
               ELSE Respond([success |-> TRUE, source |-> "apkpure_page",
                             downloadUrl |-> loc.url, packageName |-> pkg]))
       /\ UNCHANGED <<rev, pkg, dev, firebaseInitialized, store, logs>>

\* v3.0 tryApkMirror: the search request
MirrorSearch30 ==
    /\ pc = "v30_mirror_search"
    /\ \E ok \in BOOLEAN, appLink \in MirrorLinks :
       /\ calls' = Append(calls, Call("apkmirror", "GET", ApkMirrorAppSearchUrl(pkg), ok))
       /\ Step(IF ok /\ TruthyStr(appLink)
               THEN Goto("v30_mirror_app", [loc EXCEPT !.url = ApkMirrorUrl(appLink)])
               ELSE Goto("v30_monk", loc))
       /\ UNCHANGED <<rev, pkg, dev, firebaseInitialized, store, logs>>

\* v3.0 tryApkMirror: the app page
MirrorAppPage30 ==
    /\ pc = "v30_mirror_app"
    /\ \E ok \in BOOLEAN, versionLink \in MirrorLinks :
       /\ calls' = Append(calls, Call("apkmirror", "GET", loc.url, ok))
       /\ Step(IF ok /\ TruthyStr(versionLink)
               THEN Respond(MirrorPageBody(pkg, ApkMirrorUrl(versionLink)))
               ELSE Goto("v30_monk", loc))
       /\ UNCHANGED <<rev, pkg, dev, firebaseInitialized, store, logs>>

\* v3.0 tryApkMonk, and the manual links when it fails too
Monk30 ==
    /\ pc = "v30_monk"
    /\ \E ok \in BOOLEAN, downloadLink \in Hrefs30 :
       /\ calls' = Append(calls, Call("apkmonk", "GET", ApkMonkAppUrl(pkg), ok))
       /\ Step(IF ok /\ TruthyStr(downloadLink)
               THEN Respond([success |-> TRUE, source |-> "apkmonk",
                             downloadUrl |-> IF StartsWith(downloadLink, <<Https>>)
                                             THEN downloadLink
                                             ELSE <<Https, "www.apkmonk.com">>
                                                  \o downloadLink,
                             packageName |-> pkg])
               ELSE Respond(ManualBody(rev, pkg)))
       /\ UNCHANGED <<rev, pkg, dev, firebaseInitialized, store, logs>>

\* v2.1 getApkComboUrl: the search request
ComboSearch21 ==
    /\ pc = "v21_combo"
    /\ \E ok \in BOOLEAN, hrefs \in SeqsUpTo(ComboAnchors21, 2) :
       /\ calls' = Append(calls, Call("apkcombo", "GET", ApkComboSearchUrl(pkg), ok))
       /\ Step(IF ok
               THEN Respond(Body21("apkcombo", getApkComboUrlResult(pkg, hrefs), pkg))
               ELSE Goto("v21_pure_head", [loc EXCEPT !.idx = 1]))
       /\ UNCHANGED <<rev, pkg, dev, firebaseInitialized, store, logs>>

\* v2.1 getApkPureDownloadPage: one header-only request of the loop over
\* possibleUrls, and the search page when none answered 200
PureHead21 ==
    /\ pc = "v21_pure_head"
    /\ \E ok \in BOOLEAN, status \in {200, 204} :
       /\ LET url == PossibleUrls21(pkg)[loc.idx]
          IN  /\ calls' = Append(calls, Call("apkpure", "HEAD", url, ok /\ status = 200))
              /\ Step(IF ok /\ status = 200 THEN Respond(Body21("apkpure_page", url, pkg))
                      ELSE IF loc.idx < Len(PossibleUrls21(pkg))
                      THEN Goto("v21_pure_head", [loc EXCEPT !.idx = loc.idx + 1])
                      ELSE Respond(Body21("apkpure_page", ApkPureSearchUrl(pkg), pkg)))
       /\ UNCHANGED <<rev, pkg, dev, firebaseInitialized, store, logs>>

Next ==
    \/ Request
    \/ MetaFetch
    \/ HeadLatestXapk
    \/ HeadLatestApk
    \/ TryApkMirror
    \/ MirrorSearch42
    \/ MirrorAppPage42
    \/ PureSearch42
    \/ PureVersionsPage42
    \/ KnownHead43
    \/ CodeProbe
    \/ MirrorSearch43
    \/ MirrorAppPage43
    \/ MirrorVersionPage43
    \/ MirrorDownloadPage43
    \/ PureSearch44
    \/ PureVersionsPage44
    \/ DirectProbe44
    \/ DownloadPage44
    \/ OverrideLookup
    \/ OverrideLog
    \/ OverrideIncrement
    \/ PureSearch40
    \/ PureVersionsPage40
    \/ MirrorSearch40
    \/ MirrorAppPage40
    \/ Combo40
    \/ PureSearch30
    \/ PureAppPage30
    \/ PureDownloadPage30
    \/ MirrorSearch30
    \/ MirrorAppPage30
    \/ Monk30
    \/ ComboSearch21
    \/ PureHead21

Spec == Init /\ [][Next]_vars

\* ------------------------------------------------------------------------
\* findMatchingOverride on its own, over stores of every shape
\* ------------------------------------------------------------------------
\* the targeting rules an entry may carry: none, a device model, a manufacturer
\* with an API ceiling, an API floor
Targetings ==
    {NoTargeting,
     Targeting(Null, Null, << <<"F21", " Pro">> >>, << >>),
     Targeting(Null, 29, << >>, << <<"DuoQin">> >>),
     Targeting(26, Null, << >>, << >>)}

\* entries of one package, enabled or not, with or without an expiry time
OverrideEntries ==
    {Entry(ExamplePkg, t, OverrideUrl, "", enabled, expiresAt) :
        t \in Targetings, enabled \in BOOLEAN, expiresAt \in ExpiryTimes}

\* the query strings of the devices that ask
OverrideQueries ==
    [apiLevel : {NoStr, <<"2", "5">>, <<"3", "0">>}, arch : {NoStr}, dpi : {NoStr},
     model : {NoStr, <<"F21">>, <<"Pixel">>},
     manufacturer : {NoStr, <<"DuoQin">>, <<"Acme">>},
     needsOlderVersion : {NoStr}]

InitOverride ==
    /\ rev = "v5.0"
    /\ pc = "idle"
    /\ pkg = ExamplePkg
    /\ dev = NoDev
    /\ loc = LocInit
    /\ calls = << >>
    /\ sent = << >>
    /\ firebaseInitialized = TRUE
    /\ store \in SeqsUpTo(OverrideEntries, MaxStore)
    /\ logs = << >>

\* const override = await findMatchingOverride(packageName, deviceInfo): the
\* id of the entry it returns (0 for null) and the time of the lookup are kept
LookupOverride ==
    /\ pc = "idle"
    /\ \E q \in OverrideQueries, now \in Clock :
           /\ dev' = getDeviceInfo(rev, q)
           /\ calls' = Append(calls, Call("firebase", "GET", <<"apk_overrides">>, TRUE))
           /\ loc' = [loc EXCEPT !.now = now,
                                 !.idx = findMatchingOverride(firebaseInitialized, store,
                                                              pkg, dev', now).id]
           /\ pc' = "looked_up"
           /\ UNCHANGED <<rev, pkg, sent, firebaseInitialized, store, logs>>

NextOverride == LookupOverride

SpecOverride == InitOverride /\ [][NextOverride]_vars

\* ------------------------------------------------------------------------
\* Vocabulary of the properties
\* ------------------------------------------------------------------------
\* the handler has answered the current request
Responded == pc = "done" /\ Len(sent) > 0

\* the body of the last response
LastBody == sent[Len(sent)].body

HasField(b, f) == f \in DOMAIN b

\* the branch decision has been made (revisions with two branches)
Decided == pc \notin {"idle", "meta"}

\* the latest-version branch was entered: the request that follows the metadata
\* lookup is, or will be, the header-only probe of the latest XAPK URL
TookLatest ==
    \/ pc = "latest_xapk"
    \/ \E i \in 2..Len(calls) :
          /\ calls[i - 1].site = "gplay"
          /\ calls[i].method = "HEAD"
          /\ calls[i].url = LatestUrl("XAPK", pkg)

TookOlder == Decided /\ ~TookLatest

IsCatalog(c) == c.site \in {"apkpure", "apkmirror"}

\* every catalog request of the current request failed
AllCatalogCallsFailed == \A i \in 1..Len(calls) : IsCatalog(calls[i]) => ~calls[i].ok

SomeCatalogCall == \E i \in 1..Len(calls) : IsCatalog(calls[i])

\* mustFindOlder as the specification words it
MustFindOlderFormula ==
    \/ dev.needsOlderVersion
    \/ /\ TruthyNum(loc.minSdk)
       /\ TruthyNum(dev.apiLevel)
       /\ loc.minSdk > dev.apiLevel

C2_IncompatibleIsFailureWithManual ==
    \A i \in 1..Len(sent) :
        (HasField(sent[i].body, "compatible") /\ sent[i].body.compatible = FALSE) =>
            /\ sent[i].body.success = FALSE
            /\ HasField(sent[i].body, "manualDownload")

\* ------------------------------------------------------------------------
\* C3
\* ------------------------------------------------------------------------
\* C3: when the older-version branch was taken and every catalog request failed,
\* the response is success = false, compatible = false with manualDownload.
C3_ExhaustedOlderBranchFallsBack ==
    (/\ rev \in BranchRevs
     /\ Responded
     /\ TookOlder
     /\ SomeCatalogCall
     /\ AllCatalogCallsFailed) =>
        /\ LastBody.success = FALSE
        /\ HasField(LastBody, "compatible")
        /\ LastBody.compatible = FALSE
        /\ HasField(LastBody, "manualDownload")

\* ------------------------------------------------------------------------
\* C4
\* ------------------------------------------------------------------------
\* the attempts of the latest-version branch, in the order of the claim
LatestPlan ==
    << [site |-> "apkpure", method |-> "HEAD", url |-> LatestUrl("XAPK", pkg)],
       [site |-> "apkpure", method |-> "HEAD", url |-> LatestUrl("APK", pkg)],
       [site |-> "apkmirror", method |-> "GET", url |-> ApkMirrorAppSearchUrl(pkg)] >>

\* C4: in the latest-version branch of v4.2, v4.3 and v4.4 the requests are the
\* XAPK probe, the APK probe and the APKMirror lookup in this order, each one
\* made only after the earlier ones failed; the first attempt that is reachable
\* is the response, and every success carries canRetryWithOlderVersion = true.
C4_LatestBranchOrder ==
    (rev \in {"v4.2", "v4.3", "v4.4"} /\ TookLatest) =>
        LET b == SubSeq(calls, 2, Len(calls))
        IN  /\ Len(b) <= 3
            /\ \A i \in 1..Len(b) :
                   /\ b[i].site = LatestPlan[i].site
                   /\ b[i].method = LatestPlan[i].method
                   /\ b[i].url = LatestPlan[i].url
            /\ \A i \in 1..(Len(b) - 1) : ~b[i].ok
            /\ ~Responded => \A i \in 1..Len(b) : ~b[i].ok
            /\ Responded =>
                   /\ Len(b) >= 1
                   /\ (Len(b) <= 2 /\ b[Len(b)].ok) =>
                          /\ LastBody.success
                          /\ LastBody.downloadUrl = b[Len(b)].url
                          /\ LastBody.format = (IF Len(b) = 1 THEN "XAPK" ELSE "APK")
                   /\ LastBody.success =>
                          /\ b[Len(b)].ok
                          /\ HasField(LastBody, "canRetryWithOlderVersion")
                          /\ LastBody.canRetryWithOlderVersion = TRUE
                   /\ ~LastBody.success => Len(b) = 3

\* both probes failed and the APKMirror lookup, made third, is the response
C4_Witness ==
    /\ rev \in {"v4.2", "v4.3", "v4.4"}
    /\ TookLatest
    /\ Responded
    /\ Len(calls) = 4
    /\ ~calls[2].ok /\ ~calls[3].ok /\ calls[4].ok
    /\ calls[4].site = "apkmirror"
    /\ LastBody.success
    /\ LastBody.canRetryWithOlderVersion

\* ------------------------------------------------------------------------
\* C5
\* ------------------------------------------------------------------------
\* C5: in every revision with a latest-version branch, when every attempt of the
\* branch failed the response is success = false and carries manualDownload.
C5_LatestFailureHasManualDownload ==
    (/\ rev \in BranchRevs \cup {"v5.0"}
     /\ Responded
     /\ TookLatest) =>
        /\ AllCatalogCallsFailed => LastBody.success = FALSE
        /\ LastBody.success = FALSE => HasField(LastBody, "manualDownload")

\* ------------------------------------------------------------------------
\* C6
\* ------------------------------------------------------------------------
\* C6: a request with needsOlderVersion = true never takes the latest-version
\* branch, whatever its apiLevel; no response to it has version 'latest' or
\* canRetryWithOlderVersion = true.
C6_RequestedOlderNeverLatest ==
    (rev \in BranchRevs /\ pc # "idle" /\ dev.needsOlderVersion) =>
        /\ ~TookLatest
        /\ \A i \in 1..Len(sent) :
               /\ ~(HasField(sent[i].body, "version") /\ sent[i].body.version = Latest)
               /\ ~(/\ HasField(sent[i].body, "canRetryWithOlderVersion")
                    /\ sent[i].body.canRetryWithOlderVersion)

\* ------------------------------------------------------------------------
\* C7
\* ------------------------------------------------------------------------
\* C7: in v4.2, v4.3, v4.4 and v4.5 the older-version branch is taken exactly
\* when requestedOlder, or minApiLevel and apiLevel are known and
\* minApiLevel > apiLevel.
C7_OlderBranchIffFormula ==
    (rev \in BranchRevs /\ Decided) => (TookOlder <=> MustFindOlderFormula)

\* ------------------------------------------------------------------------
\* C8
\* ------------------------------------------------------------------------
\* the catalog the older-version branch of the revision asks first, the one it
\* asks second, and the source tags of a success of the first
FirstCatalog == IF rev = "v4.2" THEN "apkmirror" ELSE "apkpure"

SecondCatalog == IF rev = "v4.2" THEN "apkpure" ELSE "apkmirror"

FirstCatalogSources ==
    IF rev = "v4.2" THEN {"apkmirror_older", "apkmirror"}
    ELSE {"known_older_version", "apkpure_older"}

\* C8 as stated: in the older-version branch of v4.2 and v4.3, APKPure is asked
\* only after APKMirror has been asked.
C8_MirrorBeforePure ==
    (rev \in {"v4.2", "v4.3"} /\ TookOlder) =>
        \A i \in 2..Len(calls) :
            calls[i].site = "apkpure" =>
                \E j \in 2..(i - 1) : calls[j].site = "apkmirror"

\* C8 amended: the older-version branch asks its catalogs in an order fixed per
\* revision, APKMirror then APKPure in v4.2 and APKPure then APKMirror in v4.3,
\* strictly one after the other: every request to the second catalog follows
\* all requests to the first, the second is asked only when the first did not
\* succeed, and a success of the first catalog is the response.
C8_CatalogOrderPerRevision ==
    (rev \in {"v4.2", "v4.3"} /\ TookOlder) =>
        /\ \A i \in 2..Len(calls) : calls[i].site \in {FirstCatalog, SecondCatalog}
        /\ Len(calls) >= 2 => calls[2].site = FirstCatalog
        /\ \A i, j \in 2..Len(calls) :
               (i < j /\ calls[i].site = SecondCatalog) => calls[j].site = SecondCatalog
        /\ (rev = "v4.3" /\ \E i \in 2..Len(calls) : calls[i].site = SecondCatalog) =>
               \A i \in 2..Len(calls) : calls[i].site = FirstCatalog => ~calls[i].ok
        /\ (Responded /\ LastBody.success /\ LastBody.source \in FirstCatalogSources) =>
               \A i \in 2..Len(calls) : calls[i].site = FirstCatalog

\* v4.3 answered from APKMirror after every APKPure probe had failed
C8_Witness ==
    /\ rev = "v4.3"
    /\ TookOlder
    /\ Responded
    /\ LastBody.success
    /\ LastBody.source = "apkmirror_older"
    /\ calls[2].site = "apkpure"
    /\ calls[Len(calls)].site = "apkmirror"

\* ------------------------------------------------------------------------
\* C9 and C10
\* ------------------------------------------------------------------------
\* the lookup of LookupOverride has returned
LookedUp == pc = "looked_up"

\* the tier of a targeting: device-model rule 3, manufacturer rule 2, API-range
\* only 1, untargeted 0
Tier(t) ==
    IF ~t.present THEN 0
    ELSE IF Len(t.deviceModels) > 0 THEN 3
    ELSE IF Len(t.manufacturers) > 0 THEN 2
    ELSE IF TruthyNum(t.minApiLevel) \/ TruthyNum(t.maxApiLevel) THEN 1
    ELSE 0

Expired(e) == TruthyNum(e.expiration.expiresAt) /\ e.expiration.expiresAt < loc.now

\* entry e is for the package, enabled, unexpired, and its targeting matches
Eligible(e) ==
    /\ e.packageName = pkg
    /\ e.status.enabled
    /\ ~Expired(e)
    /\ matchesTargeting(e.targeting, dev)

\* C9: the entry findMatchingOverride returns matches the device and no
\* enabled, unexpired, matching entry of the package has a higher tier, in
\* whatever order the store holds the entries.
C9_MostSpecificMatch ==
    (LookedUp /\ loc.idx # 0) =>
        /\ store[loc.idx].packageName = pkg
        /\ matchesTargeting(store[loc.idx].targeting, dev)
        /\ \A j \in 1..Len(store) :
               Eligible(store[j]) => Tier(store[j].targeting) <= Tier(store[loc.idx].targeting)

\* an untargeted entry comes first in the store, a device-model entry second,
\* both eligible, and the device-model entry is returned
C9_Witness ==
    /\ LookedUp
    /\ Len(store) = 2
    /\ Eligible(store[1]) /\ Eligible(store[2])
    /\ Tier(store[1].targeting) = 0
    /\ Tier(store[2].targeting) = 3
    /\ TruthyStr(dev.model)
    /\ loc.idx = 2

\* C10: findMatchingOverride never returns a disabled or an expired entry; when
\* some enabled, unexpired, matching entry exists it returns one, otherwise null.
C10_NeverDisabledOrExpired ==
    LookedUp =>
        /\ loc.idx # 0 => (store[loc.idx].status.enabled /\ ~Expired(store[loc.idx]))
        /\ (loc.idx = 0) <=> ~\E j \in 1..Len(store) : Eligible(store[j])

\* the most specific matching entry is disabled or expired and the less
\* specific eligible entry is returned in its place
C10_Witness ==
    /\ LookedUp
    /\ Len(store) = 2
    /\ Tier(store[1].targeting) = 3
    /\ matchesTargeting(store[1].targeting, dev)
    /\ (~store[1].status.enabled \/ Expired(store[1]))
    /\ Tier(store[2].targeting) < 3
    /\ Eligible(store[2])
    /\ loc.idx = 2

\* ------------------------------------------------------------------------
\* C11
\* ------------------------------------------------------------------------
\* the request was answered from an override of the store
OverrideAnswered == rev = "v5.0" /\ Responded /\ loc.idx # 0

\* the update requests incrementOverrideCount sent to the store
UpdateCalls == SelectSeq(calls, LAMBDA c : c.site = "firebase" /\ c.method = "UPDATE")

\* the response is the matched override, its downloadUrl as stored
OverrideVerbatim ==
    /\ LastBody.success
    /\ LastBody.source = "manual_override"
    /\ LastBody.overrideId = loc.idx
    /\ LastBody.downloadUrl = store[loc.idx].override.downloadUrl

\* C11 as stated: when an override matches, the response is success = true with
\* source 'manual_override' and the override's downloadUrl, and the override's
\* installCount has grown by exactly one during the request.
C11_CountedExactlyOnce ==
    OverrideAnswered =>
        /\ OverrideVerbatim
        /\ store[loc.idx].status.installCount = 1

\* C11 amended: when an override matches, the response is the override with its
\* downloadUrl as stored, exactly one increment is sent to the store, and
\* installCount grows by one when the store applies it and by nothing when the
\* update fails; no other entry changes.
C11_OverrideReturnedAndCountedOnce ==
    OverrideAnswered =>
        /\ OverrideVerbatim
        /\ Len(UpdateCalls) = 1
        /\ store[loc.idx].status.installCount = (IF UpdateCalls[1].ok THEN 1 ELSE 0)
        /\ \A j \in 1..Len(store) : j # loc.idx => store[j].status.installCount = 0

\* the entry targets maxApiLevel 29, the device has apiLevel 25, the override is
\* the response and its counter stands at one
C11_Witness ==
    /\ OverrideAnswered
    /\ store[loc.idx].targeting.maxApiLevel = 29
    /\ dev.apiLevel = 25
    /\ LastBody.source = "manual_override"
    /\ store[loc.idx].status.installCount = 1

\* ------------------------------------------------------------------------
\* C12
\* ------------------------------------------------------------------------
\* what the override lookup of the current request gave: the first store
\* read, evaluated at the time the handler read the store
LookupResult ==
    IF Len(calls) > 0 /\ calls[1].site = "firebase" /\ calls[1].ok
    THEN findMatchingOverride(firebaseInitialized, store, pkg, dev, loc.now)
    ELSE NoOverride

NonStoreCalls == SelectSeq(calls, LAMBDA c : c.site # "firebase")

\* C12: in v5.0 with the store configured, the first request of the handler
\* is the override lookup; when it gives a match, no metadata-provider and no
\* catalog request is issued and the response is that override; a metadata
\* or catalog request is only issued after a lookup that gave no match
C12_OverrideBeforeResolution ==
    (rev = "v5.0" /\ firebaseInitialized /\ Len(calls) > 0) =>
        /\ calls[1].site = "firebase" /\ calls[1].method = "GET"
        /\ LookupResult.id # 0 =>
               /\ NonStoreCalls = << >>
               /\ Responded =>
                      /\ HasField(LastBody, "source")
                      /\ LastBody.source = "manual_override"
                      /\ LastBody.overrideId = LookupResult.id
        /\ NonStoreCalls # << >> => LookupResult.id = 0

C12_Witness ==
    /\ rev = "v5.0" /\ firebaseInitialized /\ Responded
    /\ LookupResult.id # 0
    /\ NonStoreCalls = << >>
    /\ Len(calls) = 3
    /\ LastBody.overrideId = LookupResult.id

\* ------------------------------------------------------------------------
\* Concurrent /apk-url requests of v5.0 against one store: each request is
\* its own run of the handler, the requests interleave at every await, and
\* the store applies each operation it receives as one step. pc, loc and
\* sent are here indexed by request.
\* ------------------------------------------------------------------------
MaxRequests == 3

Requests == 1 .. MaxRequests

\* the device the concurrent requests come from, and the stores they meet
ConcQueries ==
    [apiLevel : {<<"2", "5">>}, arch : {NoStr}, dpi : {NoStr},
     model : {<<"F21">>}, manufacturer : {NoStr},
     needsOlderVersion : {NoStr}]

ConcStores ==
    {st \in SeqsUpTo(StoreEntries, 2) :
        /\ st # << >>
        /\ st[1].targeting.maxApiLevel = 29
        /\ \A k \in 1 .. Len(st) : st[k].packageName = ExamplePkg}

\* the handler's local variables: the override object it got from the
\* lookup, and whether its counter update was applied by the store
ConcLoc == [appName |-> NoStr, override |-> NoOverride, applied |-> FALSE]

InitConcurrent ==
    /\ rev = "v5.0"
    /\ firebaseInitialized = TRUE
    /\ store \in ConcStores
    /\ pkg = ExamplePkg
    /\ dev \in {getDeviceInfo("v5.0", q) : q \in ConcQueries}
    /\ pc = [i \in Requests |-> "idle"]
    /\ loc = [i \in Requests |-> ConcLoc]
    /\ sent = [i \in Requests |-> << >>]
    /\ calls = << >>
    /\ logs = << >>

\* request i moves to step p with local variables l
ConcGoto(i, p, l) ==
    /\ pc' = [pc EXCEPT ![i] = p]
    /\ loc' = [loc EXCEPT ![i] = l]
    /\ sent' = sent

\* request i sends body and returns
ConcRespond(i, body, l) ==
    /\ pc' = [pc EXCEPT ![i] = "done"]
    /\ loc' = [loc EXCEPT ![i] = l]
    /\ sent' = [sent EXCEPT ![i] = Append(@, [status |-> 200, body |-> body])]

\* a faulty variant of ConcRequest in which a request clears the module-level
\* flag; C28_RequestsShareNoState must reject it
ConcRequestClearsFlag(i) ==
    /\ pc[i] = "idle"
    /\ ConcGoto(i, FirstStep(rev, firebaseInitialized), [loc[i] EXCEPT !.appName = pkg])
    /\ firebaseInitialized' = FALSE
    /\ UNCHANGED <<rev, pkg, dev, calls, store, logs>>

\* request i arrives
ConcRequest(i) ==
    /\ pc[i] = "idle"
    /\ ConcGoto(i, FirstStep(rev, firebaseInitialized), [loc[i] EXCEPT !.appName = pkg])
    /\ UNCHANGED <<rev, pkg, dev, calls, firebaseInitialized, store, logs>>

\* request i: await findMatchingOverride(packageName, deviceInfo)
ConcLookup(i) ==
    /\ pc[i] = "override_lookup"
    /\ \E ok \in BOOLEAN, now \in Clock :
       LET override == IF ok
                       THEN findMatchingOverride(firebaseInitialized, store, pkg, dev, now)
                       ELSE NoOverride
       IN  ConcGoto(i, IF override.id # 0 THEN "override_log" ELSE "meta",
                    [loc[i] EXCEPT !.override = override])
    /\ UNCHANGED <<rev, pkg, dev, calls, firebaseInitialized, store, logs>>

\* request i: await logOverrideUsage(...)
ConcLog(i) ==
    /\ pc[i] = "override_log"
    /\ \E ok \in BOOLEAN :
       logs' = IF ok
               THEN Append(logs, [overrideId |-> loc[i].override.id, packageName |-> pkg,
                                  action |-> "override_matched"])
               ELSE logs
    /\ ConcGoto(i, "override_incr", loc[i])
    /\ UNCHANGED <<rev, pkg, dev, calls, firebaseInitialized, store>>

\* a faulty variant of ConcIncrement in which the handler writes back the
\* count it read at the lookup plus one; C13_NoIncrementLost must reject it
ConcIncrementStale(i) ==
    /\ pc[i] = "override_incr"
    /\ \E ok \in BOOLEAN :
       /\ store' = IF ok
                   THEN [store EXCEPT ![loc[i].override.id].status.installCount =
                                          loc[i].override.status.installCount + 1]
                   ELSE store
       /\ ConcRespond(i, OverrideBody(pkg, loc[i].override),
                      [loc[i] EXCEPT !.applied = ok])
    /\ UNCHANGED <<rev, pkg, dev, calls, firebaseInitialized, logs>>

\* request i: await incrementOverrideCount(override.id): the update carries
\* ServerValue.increment(1), which the store applies to the value it holds;
\* a failing update is caught inside; then the response
ConcIncrement(i) ==
    /\ pc[i] = "override_incr"
    /\ \E ok \in BOOLEAN :
       /\ store' = IF ok
                   THEN [store EXCEPT ![loc[i].override.id].status.installCount = @ + 1]
                   ELSE store
       /\ ConcRespond(i, OverrideBody(pkg, loc[i].override),
                      [loc[i] EXCEPT !.applied = ok])
    /\ UNCHANGED <<rev, pkg, dev, calls, firebaseInitialized, logs>>

\* request i: await gplay.app({ appId: packageName })
ConcMeta(i) ==
    /\ pc[i] = "meta"
    /\ \E m \in MetaAnswers :
       ConcGoto(i, "latest_xapk", [loc[i] EXCEPT !.appName = AppNameFrom(pkg, m)])
    /\ UNCHANGED <<rev, pkg, dev, calls, firebaseInitialized, store, logs>>

\* request i: await axios.head(xapkUrl)
ConcHeadXapk(i) ==
    /\ pc[i] = "latest_xapk"
    /\ \E ok \in BOOLEAN :
       IF ok THEN ConcRespond(i, LatestBody(rev, "XAPK", pkg, loc[i].appName), loc[i])
       ELSE ConcGoto(i, "latest_apk", loc[i])
    /\ UNCHANGED <<rev, pkg, dev, calls, firebaseInitialized, store, logs>>

\* request i: await axios.head(apkUrl)
ConcHeadApk(i) ==
    /\ pc[i] = "latest_apk"
    /\ \E ok \in BOOLEAN :
       ConcRespond(i, IF ok THEN LatestBody(rev, "APK", pkg, loc[i].appName)
                      ELSE LatestFailBody(rev, pkg), loc[i])
    /\ UNCHANGED <<rev, pkg, dev, calls, firebaseInitialized, store, logs>>

NextConcurrent ==
    \/ \E i \in Requests : ConcRequest(i)
    \/ \E i \in Requests : ConcLookup(i)
    \/ \E i \in Requests : ConcLog(i)
    \/ \E i \in Requests : ConcIncrement(i)
    \/ \E i \in Requests : ConcMeta(i)
    \/ \E i \in Requests : ConcHeadXapk(i)
    \/ \E i \in Requests : ConcHeadApk(i)

SpecConcurrent == InitConcurrent /\ [][NextConcurrent]_vars

\* ------------------------------------------------------------------------
\* C13
\* ------------------------------------------------------------------------
\* the requests that matched override id and have completed, and those of
\* them whose counter update the store applied
CompletedFor(id) == {i \in Requests : pc[i] = "done" /\ loc[i].override.id = id}

AppliedFor(id) == {i \in CompletedFor(id) : loc[i].applied}

AllCompletedOn(id) == \A i \in Requests : pc[i] = "done" /\ loc[i].override.id = id

\* C13 as stated: once N concurrent requests that all matched the same
\* override have completed, its installCount has grown by exactly N
C13_GrownByExactlyN ==
    \A id \in 1 .. Len(store) :
        AllCompletedOn(id) => store[id].status.installCount = MaxRequests

\* C13: under every interleaving, an override's installCount equals the
\* number of completed requests that matched it and whose update the store
\* applied; no applied increment is lost, and none is counted twice
C13_NoIncrementLost ==
    \A id \in 1 .. Len(store) :
        store[id].status.installCount = Cardinality(AppliedFor(id))

C13_Witness ==
    \E id \in 1 .. Len(store) :
        /\ AllCompletedOn(id)
        /\ AppliedFor(id) = Requests
        /\ store[id].status.installCount = MaxRequests

\* ------------------------------------------------------------------------
\* C14
\* ------------------------------------------------------------------------
StoreCalls == SelectSeq(calls, LAMBDA c : c.site = "firebase")

\* the result of v5.0's metadata and catalog resolution as a function of the
\* answers of the metadata provider and the catalog: cs[1] is the metadata
\* lookup, cs[2] the XAPK probe, cs[3] the APK probe
ResolutionResult(cs, appName) ==
    IF Len(cs) >= 2 /\ cs[2].ok THEN LatestBody("v5.0", "XAPK", pkg, appName)
    ELSE IF Len(cs) >= 3 /\ cs[3].ok THEN LatestBody("v5.0", "APK", pkg, appName)
    ELSE LatestFailBody("v5.0", pkg)

\* C14: with the store not configured, /apk-url of v5.0 performs no store
\* operation, starts with the metadata lookup, and answers with the result
\* of metadata and catalog resolution, which is also the answer it gives
\* with a configured, empty store for the same upstream answers
C14_UnconfiguredStoreSkipped ==
    /\ (rev = "v5.0" /\ ~firebaseInitialized) =>
           /\ StoreCalls = << >>
           /\ store = << >> /\ logs = << >>
           /\ pc \notin {"override_lookup", "override_log", "override_incr"}
           /\ Len(calls) > 0 => calls[1].site = "gplay"
    /\ (rev = "v5.0" /\ Responded /\ (~firebaseInitialized \/ store = << >>)) =>
           /\ NonStoreCalls # << >>
           /\ LastBody = ResolutionResult(NonStoreCalls, loc.appName)

C14_Witness ==
    /\ rev = "v5.0" /\ ~firebaseInitialized /\ Responded
    /\ StoreCalls = << >>
    /\ Len(calls) = 3
    /\ LastBody = LatestBody("v5.0", "APK", pkg, loc.appName)

\* ------------------------------------------------------------------------
\* The pure functions of the code, applied to inputs drawn from bounded
\* sets: loc holds the function's name, its argument and its result
\* ------------------------------------------------------------------------
\* req.query.apiLevel as the client may send it: up to three characters
ApiLevelChars == {"-", "0", "3", "5", ".", "a"}

ApiLevelInputs == SeqsUpTo(ApiLevelChars, 3)

DeviceInfoRevs == Revisions \ {"v2.1", "v3.0"}

QueryOf(raw) ==
    [apiLevel |-> raw, arch |-> NoStr, dpi |-> NoStr, model |-> NoStr,
     manufacturer |-> NoStr, needsOlderVersion |-> NoStr]

\* the revisions that define androidVersionToApi and getAndroidVersionName
VersionRevs == {"v4.0", "v4.2", "v4.3", "v4.4", "v4.5"}

\* the API levels of the claims, 19 to 35
ApiLevels == 19 .. 35

\* version strings handed to androidVersionToApi: every label of a table,
\* and numeric strings with and without a decimal part
WholeParts ==
    {<<"3">>, <<"4">>, <<"5">>, <<"6">>, <<"7">>, <<"8">>, <<"9">>, <<"1", "0">>,
     <<"1", "1">>, <<"1", "2">>, <<"1", "3">>, <<"1", "4">>, <<"1", "5">>,
     <<"1", "6">>, <<"1", "9">>, <<"2", "0">>}

VersionInputs ==
    {e[1] : e \in MappingV44 \cup MappingV45}
        \cup WholeParts
        \cup {w \o <<".", d>> : w \in WholeParts, d \in {"0", "2", "9"}}

\* version labels as the versions page of APKPure shows them, and the lists
\* of scraped versions handed to the sort
MaxLabels == 3

VersionLabels ==
    {<<"1", ".", "2", "0", "2", "4", ".", "3", "1">>,
     <<"1", ".", "2", "0", "2", "4", ".", "3", ".", "1">>,
     <<"1", ".", "2", "0", "2", "4", ".", "3">>,
     <<"1", ".", "2">>, <<"1", ".", "2", ".", "0">>, <<"1", ".", "1", "0">>,
     <<"1", ".", "9">>, <<"2", ".", "0">>}

VersionLists == {l \in SeqsUpTo(VersionLabels, MaxLabels) : l # << >>}

\* rows of APKMirror's variant table as v4.0 reads them, the lists of rows
\* of one app page, and the device profiles they are scored against
MaxVariants == 2

ScoredRows ==
    [link : {<<"/apk/dev/app/variant/">>},
     arch : {NoStr, <<"arm64-v8a">>, <<"armeabi-v7a">>, <<"universal">>},
     req : {NoStr, <<"2", "4">>, <<"3", "1">>},
     dpi : {NoStr, <<"nodpi">>, <<"xhdpi">>}]

\* the rows that app pages with several variants are made of
SelectionRows ==
    {row \in ScoredRows : row.arch \in {NoStr, <<"arm64-v8a">>}
                          /\ row.dpi \in {NoStr, <<"xhdpi">>}}

ScoringDevices ==
    [apiLevel : {Null, 30}, arch : {NoStr, <<"arm64-v8a">>}, dpi : {NoStr, <<"xhdpi">>},
     model : {NoStr}, manufacturer : {NoStr}, needsOlderVersion : {FALSE}]

\* the variant table is read only if (deviceInfo.apiLevel || deviceInfo.arch)
VariantInputs ==
    [rows : SeqsUpTo(SelectionRows, MaxVariants) \cup {<<row>> : row \in ScoredRows},
     d : {d \in ScoringDevices : TruthyNum(d.apiLevel) \/ TruthyStr(d.arch)}]

\* rows of a versions page with differing version labels, in any order, and
\* the device that asks
OrderedRows ==
    [link : {<<"/my-app/download/1">>}, req : {NoStr, <<"1", "2">>, <<"5", ".", "0">>},
     version : {<<"1", ".", "0">>, <<"2", ".", "0">>}]

CandidateInputs ==
    [rows : SeqsUpTo(OrderedRows, MaxVersions),
     d : {[NoDev EXCEPT !.apiLevel = 25, !.needsOlderVersion = TRUE]}]

\* the answers to the header-only probes of the version codes of revision r,
\* one per listed code: all throw but at most two
ProbeRuns(r) ==
    LET n == Len(VersionCodes(r))
    IN  {[k \in 1 .. n |-> IF k = i THEN a ELSE IF k = j THEN b
                           ELSE [ok |-> FALSE, size |-> 0]] :
            i \in 1 .. n, j \in 1 .. n, a \in Probes, b \in Probes}

\* the loop of tryApkPureOlderVersion (v4.3) and tryOlderVersionCodes (v4.5)
\* from code k on, answered by outcomes: the number of probes it sends and
\* what it returns ({ success: false } in v4.3, null in v4.5 when the list
\* is used up)
RECURSIVE ProbeLoop(_, _, _, _)
ProbeLoop(r, p, outcomes, k) ==
    IF k > Len(VersionCodes(r))
    THEN [probed |-> k - 1, result |-> IF r = "v4.5" THEN Null ELSE [success |-> FALSE]]
    ELSE IF ProbeAccepts(outcomes[k])
    THEN [probed |-> k, result |-> CodeBody(r, p, VersionCodes(r)[k])]
    ELSE ProbeLoop(r, p, outcomes, k + 1)

\* device API levels around the ranges of the hard-coded tables
TableApiLevels == 19 .. 33

\* olderVersions.find(...) of the revision's table for com.openai.chatgpt:
\* the index of the entry found, 0 for none
OlderVersionIdx(r, apiLevel) ==
    LET d == [NoDev EXCEPT !.apiLevel = apiLevel]
    IN  IF r = "v4.3" THEN KnownIdx43(ChatGptPkg, d) ELSE DbIdx45(ChatGptPkg, d)

\* pairs of version strings whose API levels are compared: every label of a
\* table and a string between the labels for every whole part
ComparedVersions ==
    {e[1] : e \in MappingV44 \cup MappingV45} \cup {w \o <<".", "2">> : w \in WholeParts}

ComparedPairs == ComparedVersions \X ComparedVersions

FunctionInputs ==
    [fn : {"getDeviceInfo"}, rev : DeviceInfoRevs, arg : ApiLevelInputs]
        \cup [fn : {"tryApkMirrorWithCompatibility"}, rev : {"v4.0"}, arg : VariantInputs]
        \cup [fn : {"versions.sort"}, rev : {"v4.4"}, arg : VersionLists]
        \cup [fn : {"findOlderVersionApkPure"}, rev : {"v4.2"}, arg : CandidateInputs]
        \cup UNION {[fn : {"tryOlderVersionCodes"}, rev : {r}, arg : ProbeRuns(r)] :
                        r \in {"v4.3", "v4.5"}}
        \cup [fn : {"olderVersions.find"}, rev : {"v4.3", "v4.5"}, arg : TableApiLevels]
        \cup [fn : {"androidVersionToApi twice"}, rev : VersionRevs, arg : ComparedPairs]
        \cup [fn : {"getAndroidVersionName"}, rev : VersionRevs, arg : ApiLevels]
        \cup [fn : {"androidVersionToApi"}, rev : VersionRevs, arg : VersionInputs]

InitFunctions ==
    /\ \E in \in FunctionInputs :
          /\ rev = in.rev
          /\ loc = [fn |-> in.fn, arg |-> in.arg, out |-> Null]
    /\ pc = "idle"
    /\ pkg = NoStr
    /\ dev = NoDev
    /\ calls = << >>
    /\ sent = << >>
    /\ firebaseInitialized = FALSE
    /\ store = << >>
    /\ logs = << >>

\* const deviceInfo = getDeviceInfo(req)
ApplyGetDeviceInfo ==
    /\ pc = "idle" /\ loc.fn = "getDeviceInfo"
    /\ dev' = getDeviceInfo(rev, QueryOf(loc.arg))
    /\ loc' = [loc EXCEPT !.out = dev'.apiLevel]
    /\ pc' = "done"
    /\ UNCHANGED <<rev, pkg, calls, sent, firebaseInitialized, store, logs>>

\* getAndroidVersionName(apiLevel), and the label converted back
ApplyGetAndroidVersionName ==
    /\ pc = "idle" /\ loc.fn = "getAndroidVersionName"
    /\ LET name == getAndroidVersionName(rev, loc.arg)
       IN  loc' = [loc EXCEPT !.out = [name |-> name,
                                       api |-> androidVersionToApi(rev, name)]]
    /\ pc' = "done"
    /\ UNCHANGED <<rev, pkg, dev, calls, sent, firebaseInitialized, store, logs>>

\* androidVersionToApi(versionStr), the level's label, and that label
\* converted back
ApplyAndroidVersionToApi ==
    /\ pc = "idle" /\ loc.fn = "androidVersionToApi"
    /\ LET api == androidVersionToApi(rev, loc.arg)
           name == getAndroidVersionName(rev, api)
       IN  loc' = [loc EXCEPT !.out = [api |-> api, name |-> name,
                                       back |-> androidVersionToApi(rev, name)]]
    /\ pc' = "done"
    /\ UNCHANGED <<rev, pkg, dev, calls, sent, firebaseInitialized, store, logs>>

\* versions.sort((a, b) => ...) of findOlderVersionFromApkPure
ApplySortVersions ==
    /\ pc = "idle" /\ loc.fn = "versions.sort"
    /\ loc' = [loc EXCEPT !.out =
                   SortVersions([i \in 1 .. Len(loc.arg) |-> [version |-> loc.arg[i]]])]
    /\ pc' = "done"
    /\ UNCHANGED <<rev, pkg, dev, calls, sent, firebaseInitialized, store, logs>>

\* tryApkMirrorWithCompatibility once the app page answered with rows: the
\* variants it read, their scores in page order, and what it returns
ApplyTryApkMirrorWithCompatibility ==
    /\ pc = "idle" /\ loc.fn = "tryApkMirrorWithCompatibility"
    /\ LET variants == Variants40(rev, loc.arg.rows)
       IN  loc' = [loc EXCEPT !.out =
                      [variants |-> variants,
                       scores |-> [i \in 1 .. Len(variants) |->
                                      ScoreVariant(variants[i], loc.arg.d)],
                       result |-> tryApkMirrorWithCompatibilityResult(
                                      rev, ExamplePkg, loc.arg.d,
                                      ApkMirrorUrl(<<"/apk/dev/app/">>), loc.arg.rows)]]
    /\ pc' = "done"
    /\ UNCHANGED <<rev, pkg, dev, calls, sent, firebaseInitialized, store, logs>>

\* findOlderVersionApkPure once the versions page answered with rows: the
\* versions it read, and what it returns
ApplyFindOlderVersionApkPure ==
    /\ pc = "idle" /\ loc.fn = "findOlderVersionApkPure"
    /\ loc' = [loc EXCEPT !.out =
                  [versions |-> PureVersions42(rev, loc.arg.rows),
                   result |-> findOlderVersionApkPureResult(rev, ExamplePkg, loc.arg.d,
                                                            ExamplePkg, loc.arg.rows)]]
    /\ pc' = "done"
    /\ UNCHANGED <<rev, pkg, dev, calls, sent, firebaseInitialized, store, logs>>

\* tryOlderVersionCodes(packageName, deviceApiLevel) of v4.5 and
\* tryApkPureOlderVersion(packageName, deviceInfo) of v4.3
ApplyTryOlderVersionCodes ==
    /\ pc = "idle" /\ loc.fn = "tryOlderVersionCodes"
    /\ loc' = [loc EXCEPT !.out = ProbeLoop(rev, ChatGptPkg, loc.arg, 1)]
    /\ pc' = "done"
    /\ UNCHANGED <<rev, pkg, dev, calls, sent, firebaseInitialized, store, logs>>

\* knownApp.olderVersions.find(...) for a device API level
ApplyOlderVersionsFind ==
    /\ pc = "idle" /\ loc.fn = "olderVersions.find"
    /\ loc' = [loc EXCEPT !.out = [idx |-> OlderVersionIdx(rev, loc.arg)]]
    /\ pc' = "done"
    /\ UNCHANGED <<rev, pkg, dev, calls, sent, firebaseInitialized, store, logs>>

\* androidVersionToApi applied to each string of a pair
ApplyAndroidVersionToApiTwice ==
    /\ pc = "idle" /\ loc.fn = "androidVersionToApi twice"
    /\ loc' = [loc EXCEPT !.out = [a |-> androidVersionToApi(rev, loc.arg[1]),
                                   b |-> androidVersionToApi(rev, loc.arg[2])]]
    /\ pc' = "done"
    /\ UNCHANGED <<rev, pkg, dev, calls, sent, firebaseInitialized, store, logs>>

NextFunctions ==
    \/ ApplyGetDeviceInfo
    \/ ApplyOlderVersionsFind
    \/ ApplyAndroidVersionToApiTwice
    \/ ApplyTryOlderVersionCodes
    \/ ApplyFindOlderVersionApkPure
    \/ ApplyTryApkMirrorWithCompatibility
    \/ ApplySortVersions
    \/ ApplyGetAndroidVersionName
    \/ ApplyAndroidVersionToApi

SpecFunctions == InitFunctions /\ [][NextFunctions]_vars

\* ------------------------------------------------------------------------
\* C15
\* ------------------------------------------------------------------------
Applied(fn) == pc = "done" /\ loc.fn = fn

\* the input is exactly a positive integer: digits only, with a value above 0
IsPositiveInteger(raw) ==
    /\ Len(raw) > 0
    /\ \A i \in 1 .. Len(raw) : raw[i] \in Digits
    /\ DigitsValue(raw, 1, Len(raw)) > 0

\* C15: getDeviceInfo gives apiLevel = null for every apiLevel input that is
\* not exactly a positive integer, and that integer when it is one
C15_ApiLevelNullUnlessPositiveInteger ==
    Applied("getDeviceInfo") =>
        dev.apiLevel = IF IsPositiveInteger(loc.arg)
                       THEN DigitsValue(loc.arg, 1, Len(loc.arg))
                       ELSE Null

\* ------------------------------------------------------------------------
\* C16
\* ------------------------------------------------------------------------
\* C16: a request whose device apiLevel is null is never answered with
\* compatible = false
C16_NullApiLevelNeverIncompatible ==
    (Responded /\ rev \in DeviceInfoRevs /\ dev.apiLevel = Null) =>
        ~(HasField(LastBody, "compatible") /\ LastBody.compatible = FALSE)

\* ------------------------------------------------------------------------
\* C17
\* ------------------------------------------------------------------------
\* the metadata lookup failed, or its Android-version field varies by device
Unusable(m) == ~m.ok \/ Includes(m.androidVersion, <<"Varies">>)

MetaFailed == Len(calls) > 0 /\ calls[1].site = "gplay" /\ ~calls[1].ok

\* C17: in the revisions with both branches, a metadata lookup that fails or
\* says 'Varies with device' leaves minSdkFromStore null; with
\* needsOlderVersion = false the handler then takes the latest-version branch
\* whatever the device apiLevel, and a failed lookup shows in the response
\* neither as a failure of its own nor as an error other than the catalog's
C17_UnknownMinSdkTakesLatest ==
    rev \in BranchRevs =>
        /\ \A m \in MetaAnswers : Unusable(m) => MinSdkFromStore(rev, m) = Null
        /\ (Decided /\ MetaFailed) => loc.minSdk = Null
        /\ (Decided /\ loc.minSdk = Null /\ ~dev.needsOlderVersion) => TookLatest
        /\ (Responded /\ MetaFailed /\ ~dev.needsOlderVersion) =>
               \/ LastBody.success
               \/ LastBody.error = "Could not find APK download"

C17_Witness ==
    /\ rev \in BranchRevs
    /\ Responded
    /\ MetaFailed
    /\ ~dev.needsOlderVersion
    /\ dev.apiLevel = 25
    /\ loc.minSdk = Null
    /\ TookLatest
    /\ LastBody.success

\* ------------------------------------------------------------------------
\* C18
\* ------------------------------------------------------------------------
\* the exact table of androidVersionToApi in revision r
MappingOf(r) ==
    IF r = "v4.4" THEN MappingV44 ELSE IF r = "v4.5" THEN MappingV45 ELSE MappingV42

\* C18: for every API level that getAndroidVersionName has a label for,
\* converting the label back gives the level; and for every label of the
\* table of androidVersionToApi, the label of its level converts back to the
\* same level
C18_LabelsRoundTrip ==
    /\ (Applied("getAndroidVersionName") /\ InTable(VersionNames, loc.arg)) =>
           loc.out.api = loc.arg
    /\ (Applied("androidVersionToApi") /\ InTable(MappingOf(rev), loc.arg)) =>
           loc.out.back = loc.out.api

\* ------------------------------------------------------------------------
\* C19
\* ------------------------------------------------------------------------
\* a version string made of digits with at most one dot inside
IsNumeric(v) ==
    /\ Len(v) > 0 /\ v[1] \in Digits /\ v[Len(v)] \in Digits
    /\ \A i \in 1 .. Len(v) : v[i] \in Digits \cup {"."}
    /\ Cardinality({i \in 1 .. Len(v) : v[i] = "."}) <= 1

\* the input's major version
Major(v) == ParseInt(v).val

\* the levels the table of revision r gives to numeric versions not above k
LevelsUpTo(r, k) ==
    {e[2] : e \in {x \in MappingOf(r) : IsNumeric(x[1]) /\ ~FGe(ParseFloat(x[1]), k + 1)
                                        /\ ~(FGe(ParseFloat(x[1]), k) /\ ParseFloat(x[1]).num
                                                 # k * ParseFloat(x[1]).den)}}

Highest(S) == CHOOSE x \in S : \A y \in S : y <= x

\* the highest major version a table knows
HighestMajor(r) == Highest({Major(e[1]) : e \in {x \in MappingOf(r) : IsNumeric(x[1])}})

\* C19: for a numeric version string that is no key of the table,
\* androidVersionToApi gives the highest level the table gives to a version
\* not above the input's major version, and 35 for every input at or above
\* the highest major version the table knows
C19_BucketsToHighestKnown ==
    (/\ Applied("androidVersionToApi")
     /\ IsNumeric(loc.arg)
     /\ ~InTable(MappingOf(rev), loc.arg)) =>
        /\ LevelsUpTo(rev, Major(loc.arg)) # {} =>
               loc.out.api = Highest(LevelsUpTo(rev, Major(loc.arg)))
        /\ Major(loc.arg) >= HighestMajor(rev) => loc.out.api = 35

\* ------------------------------------------------------------------------
\* C20
\* ------------------------------------------------------------------------
\* a label's tuple of dot-separated integers, right-padded with zeros to n
PaddedTuple(label, n) ==
    LET parts == SplitDots(label)
    IN  [i \in 1 .. n |-> IF i <= Len(parts)
                          THEN DigitsValue(parts[i], 1, Len(parts[i])) ELSE 0]

PadLen(a, b) ==
    IF Len(SplitDots(a)) >= Len(SplitDots(b)) THEN Len(SplitDots(a)) ELSE Len(SplitDots(b))

\* s is lexicographically greater than t, for tuples of one length
LexGreater(s, t) ==
    \E i \in 1 .. Len(s) : s[i] > t[i] /\ \A j \in 1 .. (i - 1) : s[j] = t[j]

Newer(a, b) == LexGreater(PaddedTuple(a, PadLen(a, b)), PaddedTuple(b, PadLen(a, b)))

SameTuple(a, b) == PaddedTuple(a, PadLen(a, b)) = PaddedTuple(b, PadLen(a, b))

CountOf(l, x) == Cardinality({i \in 1 .. Len(l) : l[i] = x})

\* C20: the comparator of the version sort puts A before B exactly when A's
\* zero-padded tuple is lexicographically greater than B's, and gives 0
\* exactly when the padded tuples are equal; the sorted list holds the same
\* versions as the scraped one and is newest first
C20_SortNewestFirst ==
    Applied("versions.sort") =>
        /\ \A i, j \in 1 .. Len(loc.arg) :
               LET a == loc.arg[i]
                   b == loc.arg[j]
                   c == CompareVersions([version |-> a], [version |-> b])
               IN  /\ c < 0 <=> Newer(a, b)
                   /\ c = 0 <=> SameTuple(a, b)
        /\ Len(loc.out) = Len(loc.arg)
        /\ \A x \in VersionLabels :
               CountOf([i \in 1 .. Len(loc.out) |-> loc.out[i].version], x)
                   = CountOf(loc.arg, x)
        /\ \A i, j \in 1 .. Len(loc.out) :
               i < j => ~Newer(loc.out[j].version, loc.out[i].version)

\* '1.2024.3.1' was scraped before '1.2024.31' and the sort put it behind
C20_Witness ==
    /\ Applied("versions.sort")
    /\ Len(loc.arg) = 3
    /\ loc.arg[1] = <<"1", ".", "2", "0", "2", "4", ".", "3", ".", "1">>
    /\ loc.arg[2] = <<"1", ".", "2", "0", "2", "4", ".", "3", "1">>
    /\ loc.arg[3] = <<"1", ".", "2", ".", "0">>
    /\ loc.out[1].version = loc.arg[2]
    /\ loc.out[2].version = loc.arg[1]
    /\ loc.out[3].version = loc.arg[3]

\* ------------------------------------------------------------------------
\* C21
\* ------------------------------------------------------------------------
\* the score as the claim words it: the architecture and density bonuses
\* apply when the device's value is known, the first that fits; a variant
\* that names no architecture has no architecture restriction
ClaimedScore(v, d) ==
    (IF ~TruthyStr(d.arch) THEN 0
     ELSE IF v.arch = d.arch THEN 100
     ELSE IF v.arch = <<"universal">> \/ v.arch = NoStr THEN 50
     ELSE IF d.arch = <<"arm64-v8a">> /\ v.arch = <<"armeabi-v7a">> THEN 30
     ELSE 0)
    + (IF v.minSdk = Null \/ d.apiLevel = Null THEN 0
       ELSE IF v.minSdk <= d.apiLevel THEN 50 ELSE 0 - 1000)
    + (IF ~TruthyStr(d.dpi) THEN 0
       ELSE IF v.dpi = d.dpi THEN 20
       ELSE IF v.dpi = <<"nodpi">> THEN 10
       ELSE 0)

\* C21: the score of every variant against every device profile is the sum
\* of the claim's bonuses and penalty
C21_ScoreIsSumOfBonuses ==
    Applied("tryApkMirrorWithCompatibility") =>
        \A i \in 1 .. Len(loc.out.variants) :
            loc.out.scores[i] = ClaimedScore(loc.out.variants[i], loc.arg.d)

\* ------------------------------------------------------------------------
\* C22
\* ------------------------------------------------------------------------
TopScore == Highest({loc.out.scores[i] : i \in 1 .. Len(loc.out.scores)})

NoCompatibleVariant(b) ==
    ~b.success /\ HasField(b, "compatible") /\ b.compatible = FALSE

\* C22: a variant of top score is returned as the selected download whenever
\* that score is 0 or more, and the result is 'no compatible variant' exactly
\* when there are variants and every score is negative
C22_NonNegativeTopIsSelected ==
    Applied("tryApkMirrorWithCompatibility") =>
        /\ (Len(loc.out.variants) > 0 /\ TopScore >= 0) =>
               /\ loc.out.result.success
               /\ HasField(loc.out.result, "variant")
               /\ \E i \in 1 .. Len(loc.out.variants) :
                      /\ loc.out.scores[i] = TopScore
                      /\ loc.out.result.downloadUrl = loc.out.variants[i].link
                      /\ loc.out.result.variant.arch = loc.out.variants[i].arch
                      /\ loc.out.result.variant.minSdk = loc.out.variants[i].minSdk
                      /\ loc.out.result.variant.dpi = loc.out.variants[i].dpi
        /\ NoCompatibleVariant(loc.out.result) <=>
               /\ Len(loc.out.variants) > 0
               /\ \A i \in 1 .. Len(loc.out.scores) : loc.out.scores[i] < 0

\* ------------------------------------------------------------------------
\* C23
\* ------------------------------------------------------------------------
\* C23: against a device of apiLevel 30 every variant with minSdk 31 scores
\* below 0 whatever its architecture and density, and the selected variant
\* is never one of them
C23_TooNewVariantNeverSelected ==
    (Applied("tryApkMirrorWithCompatibility") /\ loc.arg.d.apiLevel = 30) =>
        /\ \A i \in 1 .. Len(loc.out.variants) :
               loc.out.variants[i].minSdk = 31 => loc.out.scores[i] < 0
        /\ HasField(loc.out.result, "variant") => loc.out.result.variant.minSdk # 31

\* a variant with minSdk 31 that matches the device's architecture and
\* density stands first on the page, and the variant behind it is selected
C23_Witness ==
    /\ Applied("tryApkMirrorWithCompatibility")
    /\ loc.arg.d.apiLevel = 30
    /\ loc.arg.d.arch = <<"arm64-v8a">>
    /\ loc.arg.d.dpi = <<"xhdpi">>
    /\ Len(loc.out.variants) = 2
    /\ loc.out.variants[1].minSdk = 31
    /\ loc.out.variants[1].arch = <<"arm64-v8a">>
    /\ loc.out.variants[1].dpi = <<"xhdpi">>
    /\ loc.out.scores[2] >= 0
    /\ HasField(loc.out.result, "variant")
    /\ loc.out.result.variant.minSdk = 24

\* ------------------------------------------------------------------------
\* C24
\* ------------------------------------------------------------------------
\* the response of the handler's outer catch: success and error, nothing else
RequestLevelError(b) == DOMAIN b = {"success", "error"}

FailedCalls == SelectSeq(calls, LAMBDA c : ~c.ok)

\* the awaited upstream requests of the handlers
AwaitedSteps ==
    {"meta", "latest_xapk", "latest_apk", "latest_mirror",
     "o42_mirror_search", "o42_mirror_app", "o42_pure_search", "o42_pure_versions",
     "o43_known", "older_codes", "o43_mirror_search", "o43_mirror_app",
     "o43_version_page", "o43_download_page",
     "o44_search", "o44_versions", "o44_direct", "o44_download",
     "override_lookup", "override_log", "override_incr",
     "v40_pure_search", "v40_pure_versions", "v40_mirror_search", "v40_mirror_app",
     "v40_combo", "v30_pure_search", "v30_pure_app", "v30_pure_download",
     "v30_mirror_search", "v30_mirror_app", "v30_monk", "v21_combo", "v21_pure_head"}

\* C24: whatever upstream requests fail, every response of /apk-url has
\* status 200 and is not the body of the outer catch; after a failed request
\* the handler is at its next awaited request or has answered, and it
\* returns only by answering, once
C24_FailuresNeverReachOuterCatch ==
    /\ \A i \in 1 .. Len(sent) :
           /\ sent[i].status = 200
           /\ ~RequestLevelError(sent[i].body)
    /\ pc \in AwaitedSteps \cup {"idle", "done"}
    /\ pc = "done" => Len(sent) = 1
    /\ pc # "done" => sent = << >>
    /\ (pc = "done" /\ FailedCalls = calls /\ calls # << >>) =>
           (LastBody.success \/ HasField(LastBody, "packageName"))

\* every upstream request of the request failed, there were at least three,
\* and the answer is a structured result
C24_Witness ==
    /\ Responded
    /\ rev \in {"v4.2", "v4.4"}
    /\ Len(calls) >= 3
    /\ FailedCalls = calls
    /\ HasField(LastBody, "packageName")
    /\ ~RequestLevelError(LastBody)

\* ------------------------------------------------------------------------
\* POST /override/verify of v5.0: one header-only request to the URL of the
\* body, and a verdict
\* ------------------------------------------------------------------------
VerifyUrls ==
    {NoStr, OverrideUrl, <<Https, "files.example.org", "/page.html">>,
     <<Https, "down.example.org", "/app.xapk">>}

\* response.headers['content-length'] and ['content-type'], absent or sent
ContentLengths ==
    {NoStr, <<"0">>, <<"5", "0", "0", "0", "0", "0">>,
     <<"1", "0", "0", "0", "0", "0", "0">>, <<"1", "0", "0", "0", "0", "0", "1">>,
     <<"2", "5", "0", "0", "0", "0", "0", "0">>}

ContentTypes ==
    {NoStr, <<"text/html">>, <<"application/", "octet-stream">>,
     <<"application/vnd", ".", "android", ".package-archive">>,
     <<"application/vnd", ".ms-excel">>}

\* axios.head(url): it throws (timeout, unreachable host, status outside
\* 2xx), or answers with headers
HeadAnswers ==
    [ok : {FALSE}, message : {"timeout of 15000ms exceeded", "getaddrinfo ENOTFOUND",
                              "Request failed with status code 404"},
     length : {NoStr}, type : {NoStr}]
        \cup [ok : {TRUE}, message : {""}, length : ContentLengths, type : ContentTypes]

\* (contentLength / 1024 / 1024).toFixed(2), in hundredths
ContentLengthMB(contentLength) == (contentLength * 25 + 131072) \div 262144

\* a faulty variant of VerifyFailBody that leaves the warnings out;
\* C26_VerifierNeverThrows must reject it
VerifyFailBodyBare(message) == [success |-> FALSE, error |-> message, warnings |-> << >>]

\* the body sent from the catch of /override/verify
VerifyFailBody(message) ==
    [success |-> FALSE, error |-> message,
     warnings |-> <<"URL is not accessible or returned an error">>]

\* the verdict for an answered header-only request
VerifyBody(a) ==
    LET contentLength == ParseInt(IF TruthyStr(a.length) THEN a.length ELSE <<"0">>).val
        contentType == a.type
        isValidSize == contentLength > OneMB
        isValidType == \/ Includes(contentType, <<"octet-stream">>)
                       \/ Includes(contentType, <<"android">>)
                       \/ Includes(contentType, <<"application/vnd">>)
    IN  [success |-> TRUE, valid |-> isValidSize, contentLength |-> contentLength,
         contentLengthMB |-> ContentLengthMB(contentLength), contentType |-> contentType,
         warnings |-> (IF ~isValidSize THEN <<"File size seems too small for an APK">>
                       ELSE << >>)
                      \o (IF ~isValidType THEN <<"Content-Type may not be an APK">>
                          ELSE << >>)]

InitVerify ==
    /\ rev = "v5.0"
    /\ pc = "idle"
    /\ pkg = NoStr
    /\ dev = NoDev
    /\ loc = [url |-> NoStr, answer |-> Null]
    /\ calls = << >>
    /\ sent = << >>
    /\ firebaseInitialized \in BOOLEAN
    /\ store = << >>
    /\ logs = << >>

\* app.post('/override/verify') up to its await
VerifyRequest ==
    /\ pc = "idle"
    /\ \E url \in VerifyUrls :
       /\ loc' = [loc EXCEPT !.url = url]
       /\ IF ~TruthyStr(url)
          THEN /\ pc' = "done"
               /\ sent' = Append(sent, [status |-> 200,
                                        body |-> [success |-> FALSE,
                                                  error |-> "URL required"]])
          ELSE pc' = "verify_head" /\ sent' = sent
    /\ UNCHANGED <<rev, pkg, dev, calls, firebaseInitialized, store, logs>>

\* await axios.head(url, ...) and the response
VerifyHead ==
    /\ pc = "verify_head"
    /\ \E a \in HeadAnswers :
       /\ calls' = Append(calls, Call("url", "HEAD", loc.url, a.ok))
       /\ loc' = [loc EXCEPT !.answer = a]
       /\ sent' = Append(sent, [status |-> 200,
                                body |-> IF a.ok THEN VerifyBody(a)
                                         ELSE VerifyFailBody(a.message)])
       /\ pc' = "done"
    /\ UNCHANGED <<rev, pkg, dev, firebaseInitialized, store, logs>>

NextVerify ==
    \/ VerifyRequest
    \/ VerifyHead

SpecVerify == InitVerify /\ [][NextVerify]_vars

\* ------------------------------------------------------------------------
\* C25
\* ------------------------------------------------------------------------
Verified == pc = "done" /\ Len(calls) = 1 /\ calls[1].ok

\* the content type matches an executable-package or octet-stream pattern
PackageType(t) ==
    \/ Includes(t, <<"octet-stream">>)
    \/ Includes(t, <<"android">>)
    \/ Includes(t, <<"application/vnd">>)

\* C25: the verifier gives valid = true exactly when the declared content
\* length exceeds 1 MB and the content type, when present, is a package or
\* octet-stream type
C25_ValidIffSizeAndType ==
    Verified =>
        (LastBody.valid <=>
            /\ ParseInt(IF TruthyStr(loc.answer.length) THEN loc.answer.length
                        ELSE <<"0">>).val > OneMB
            /\ TruthyStr(loc.answer.type) => PackageType(loc.answer.type))

\* ------------------------------------------------------------------------
\* C26
\* ------------------------------------------------------------------------
\* C26: for an unreachable URL, a timeout or an upstream error status the
\* verifier answers with status 200, success = false and a non-empty
\* warnings list; no response of the verifier has another status
C26_VerifierNeverThrows ==
    /\ \A i \in 1 .. Len(sent) : sent[i].status = 200
    /\ pc = "done" => Len(sent) = 1
    /\ (pc = "done" /\ Len(calls) = 1 /\ ~calls[1].ok) =>
           /\ LastBody.success = FALSE
           /\ HasField(LastBody, "warnings")
           /\ LastBody.warnings # << >>

C26_Witness ==
    /\ pc = "done"
    /\ Len(calls) = 1 /\ ~calls[1].ok
    /\ loc.answer.message = "timeout of 15000ms exceeded"
    /\ LastBody.success = FALSE
    /\ Len(LastBody.warnings) = 1

\* ------------------------------------------------------------------------
\* v5.0: the same /apk-url request sent twice, the second after the first
\* was answered
\* ------------------------------------------------------------------------
Repeats == 1 .. 2

RepeatEntries ==
    {Entry(ExamplePkg, NoTargeting, OverrideUrl, "", TRUE, expiresAt) :
        expiresAt \in ExpiryTimes}
        \cup {Entry(ExamplePkg, Targeting(Null, 29, << >>, << >>),
                    OverrideUrl \o <<"?f21">>, "XAPK", TRUE, Null)}

RepeatStores == SeqsUpTo(RepeatEntries, 2)

RepeatMetaAnswers == {m \in MetaAnswers : m.androidVersion = NoStr}

\* the handler's local variables, and Date.now() at its lookup
RepeatLoc == [appName |-> NoStr, override |-> NoOverride, now |-> 1]

\* an upstream or store request of request i, with what came back
RepeatCall(i, site, ok, title) == [req |-> i, site |-> site, ok |-> ok, title |-> title]

InitRepeat ==
    /\ rev = "v5.0"
    /\ firebaseInitialized \in BOOLEAN
    /\ store \in RepeatStores
    /\ pkg = ExamplePkg
    /\ dev \in {getDeviceInfo("v5.0", q) : q \in ConcQueries}
    /\ pc = [i \in Repeats |-> "idle"]
    /\ loc = [i \in Repeats |-> RepeatLoc]
    /\ sent = [i \in Repeats |-> << >>]
    /\ calls = << >>
    /\ logs = << >>

RepeatGoto(i, p, l) ==
    /\ pc' = [pc EXCEPT ![i] = p]
    /\ loc' = [loc EXCEPT ![i] = l]
    /\ sent' = sent

RepeatRespond(i, body) ==
    /\ pc' = [pc EXCEPT ![i] = "done"]
    /\ loc' = loc
    /\ sent' = [sent EXCEPT ![i] = Append(@, [status |-> 200, body |-> body])]

\* request i arrives; the second one after the first was answered
RepeatRequest(i) ==
    /\ pc[i] = "idle"
    /\ i > 1 => pc[i - 1] = "done"
    /\ RepeatGoto(i, FirstStep(rev, firebaseInitialized), [loc[i] EXCEPT !.appName = pkg])
    /\ UNCHANGED <<rev, pkg, dev, calls, firebaseInitialized, store, logs>>

\* request i: await findMatchingOverride(packageName, deviceInfo); the clock
\* does not run backwards between the two requests
RepeatLookup(i) ==
    /\ pc[i] = "override_lookup"
    /\ \E ok \in BOOLEAN, now \in Clock :
       /\ i > 1 => now >= loc[i - 1].now
       /\ calls' = Append(calls, RepeatCall(i, "apk_overrides", ok, NoStr))
       /\ LET override == IF ok
                          THEN findMatchingOverride(firebaseInitialized, store, pkg, dev,
                                                    now)
                          ELSE NoOverride
          IN  RepeatGoto(i, IF override.id # 0 THEN "override_log" ELSE "meta",
                         [loc[i] EXCEPT !.override = override, !.now = now])
    /\ UNCHANGED <<rev, pkg, dev, firebaseInitialized, store, logs>>

\* request i: await logOverrideUsage(...)
RepeatLog(i) ==
    /\ pc[i] = "override_log"
    /\ \E ok \in BOOLEAN :
       logs' = IF ok
               THEN Append(logs, [overrideId |-> loc[i].override.id, packageName |-> pkg,
                                  action |-> "override_matched"])
               ELSE logs
    /\ RepeatGoto(i, "override_incr", loc[i])
    /\ UNCHANGED <<rev, pkg, dev, calls, firebaseInitialized, store>>

\* request i: await incrementOverrideCount(override.id), and the response
RepeatIncrement(i) ==
    /\ pc[i] = "override_incr"
    /\ \E ok \in BOOLEAN :
       store' = IF ok
                THEN [store EXCEPT ![loc[i].override.id].status.installCount = @ + 1]
                ELSE store
    /\ RepeatRespond(i, OverrideBody(pkg, loc[i].override))
    /\ UNCHANGED <<rev, pkg, dev, calls, firebaseInitialized, logs>>

\* request i: await gplay.app({ appId: packageName })
RepeatMeta(i) ==
    /\ pc[i] = "meta"
    /\ \E m \in RepeatMetaAnswers :
       /\ calls' = Append(calls, RepeatCall(i, "gplay", m.ok, m.title))
       /\ RepeatGoto(i, "latest_xapk", [loc[i] EXCEPT !.appName = AppNameFrom(pkg, m)])
    /\ UNCHANGED <<rev, pkg, dev, firebaseInitialized, store, logs>>

\* request i: await axios.head(xapkUrl)
RepeatHeadXapk(i) ==
    /\ pc[i] = "latest_xapk"
    /\ \E ok \in BOOLEAN :
       /\ calls' = Append(calls, RepeatCall(i, "xapk", ok, NoStr))
       /\ IF ok THEN RepeatRespond(i, LatestBody(rev, "XAPK", pkg, loc[i].appName))
          ELSE RepeatGoto(i, "latest_apk", loc[i])
    /\ UNCHANGED <<rev, pkg, dev, firebaseInitialized, store, logs>>

\* request i: await axios.head(apkUrl)
RepeatHeadApk(i) ==
    /\ pc[i] = "latest_apk"
    /\ \E ok \in BOOLEAN :
       /\ calls' = Append(calls, RepeatCall(i, "apk", ok, NoStr))
       /\ RepeatRespond(i, IF ok THEN LatestBody(rev, "APK", pkg, loc[i].appName)
                           ELSE LatestFailBody(rev, pkg))
    /\ UNCHANGED <<rev, pkg, dev, firebaseInitialized, store, logs>>

NextRepeat ==
    \/ \E i \in Repeats : RepeatRequest(i)
    \/ \E i \in Repeats : RepeatLookup(i)
    \/ \E i \in Repeats : RepeatLog(i)
    \/ \E i \in Repeats : RepeatIncrement(i)
    \/ \E i \in Repeats : RepeatMeta(i)
    \/ \E i \in Repeats : RepeatHeadXapk(i)
    \/ \E i \in Repeats : RepeatHeadApk(i)

SpecRepeat == InitRepeat /\ [][NextRepeat]_vars

\* ------------------------------------------------------------------------
\* C27
\* ------------------------------------------------------------------------
BothAnswered == \A i \in Repeats : pc[i] = "done" /\ Len(sent[i]) = 1

\* the store and the catalog gave the second request what they gave the first
SameAnswers ==
    \A j, k \in DOMAIN calls :
        (calls[j].req = 1 /\ calls[k].req = 2 /\ calls[j].site = calls[k].site) =>
            (calls[j].ok = calls[k].ok /\ calls[j].title = calls[k].title)

SourceOf(b) == IF HasField(b, "source") THEN b.source ELSE "undefined"

DownloadUrlOf(b) == IF HasField(b, "downloadUrl") THEN b.downloadUrl ELSE <<"undefined">>

SameResult ==
    /\ SourceOf(sent[1][1].body) = SourceOf(sent[2][1].body)
    /\ DownloadUrlOf(sent[1][1].body) = DownloadUrlOf(sent[2][1].body)

\* no entry of the store passes its expiry time between the two lookups
NoExpiryBetween ==
    \A k \in DOMAIN store :
        TruthyNum(store[k].expiration.expiresAt) =>
            (loc[1].now > store[k].expiration.expiresAt
                <=> loc[2].now > store[k].expiration.expiresAt)

\* C27 as stated: two requests with the same package and device, one after
\* the other, against the same store entries and the same store and catalog
\* answers, get the same source and the same downloadUrl
C27_Idempotent == (BothAnswered /\ SameAnswers) => SameResult

\* C27: the same holds when, in addition, no store entry passes its expiry
\* time between the two requests
C27_IdempotentWithinExpiry == (BothAnswered /\ SameAnswers /\ NoExpiryBetween) => SameResult

C27_Witness ==
    /\ BothAnswered /\ SameAnswers /\ NoExpiryBetween
    /\ Len(store) = 2
    /\ store[1].expiration.expiresAt = 1
    /\ loc[1].now = 2 /\ loc[2].now = 2
    /\ store[2].status.installCount = 2
    /\ SourceOf(sent[2][1].body) = "manual_override"
    /\ SameResult

\* ------------------------------------------------------------------------
\* C28
\* ------------------------------------------------------------------------
\* an entry without its usage counter
WithoutCount(o) == [o EXCEPT !.status.installCount = 0]

\* the response of request i is the one its own look-up and its own
\* upstream answers give, whatever the other requests did to the store
OwnResponse(i) ==
    LET body == sent[i][1].body
    IN  IF loc[i].override.id # 0
        THEN /\ body = OverrideBody(pkg, loc[i].override)
             /\ \E now \in Clock :
                    WithoutCount(loc[i].override)
                        = WithoutCount(findMatchingOverride(firebaseInitialized, store,
                                                            pkg, dev, now))
        ELSE body \in {LatestBody(rev, "XAPK", pkg, loc[i].appName),
                       LatestBody(rev, "APK", pkg, loc[i].appName),
                       LatestFailBody(rev, pkg)}

\* a step of one request leaves the local variables and the response of
\* every other request alone
OthersUntouched ==
    \A i \in Requests : pc'[i] = pc[i] => (loc'[i] = loc[i] /\ sent'[i] = sent[i])

MarkedOlder(b) == HasField(b, "isOlderVersion") /\ b.isOlderVersion = TRUE

\* the override check answered: the store was asked and the entry was counted
ByOverride == \E i \in DOMAIN calls : calls[i].site = "firebase" /\ calls[i].method = "UPDATE"

\* C29: in every revision a response with isOlderVersion = true comes from
\* the older-version branch, never from the latest-version branch or from
\* the override check
C29_OlderMarkOnlyFromOlderBranch ==
    \A i \in DOMAIN sent :
        MarkedOlder(sent[i].body) =>
            /\ rev \in BranchRevs
            /\ TookOlder
            /\ ~ByOverride
            /\ ~HasField(sent[i].body, "isOverride")

C29_Witness ==
    /\ Responded
    /\ rev = "v4.4"
    /\ MarkedOlder(LastBody)
    /\ TookOlder
    /\ Len(calls) >= 3

\* ------------------------------------------------------------------------
\* C30
\* ------------------------------------------------------------------------
\* C30: in v4.2 every success result of the older-version branch carries
\* isOlderVersion = true
C30_OlderSuccessIsMarked ==
    (Responded /\ rev = "v4.2" /\ TookOlder /\ LastBody.success) => MarkedOlder(LastBody)

\* ------------------------------------------------------------------------
\* C31
\* ------------------------------------------------------------------------
\* minSdk unknown, or not above the device's apiLevel
NotDisqualified(v, d) == ~TruthyNum(v.minSdk) \/ v.minSdk <= d.apiLevel

\* C31: the candidate findOlderVersionApkPure (v4.2) returns from a version
\* list is a listed version that is not disqualified, and no listed version
\* that is not disqualified is newer by the version comparator
C31_NewestCompatibleReturned ==
    (Applied("findOlderVersionApkPure") /\ loc.out.result.success) =>
        LET versions == loc.out.versions
            result == loc.out.result
        IN  /\ \E i \in DOMAIN versions :
                  /\ versions[i].version = result.version
                  /\ versions[i].minSdk = result.minSdk
                  /\ NotDisqualified(versions[i], loc.arg.d)
            /\ \A j \in DOMAIN versions :
                  NotDisqualified(versions[j], loc.arg.d) =>
                      ~Newer(versions[j].version, result.version)

\* ------------------------------------------------------------------------
\* C32
\* ------------------------------------------------------------------------
\* the device's value x matches one of the listed names, as a
\* case-insensitive substring in either direction
MatchesOneOf(x, names) ==
    TruthyStr(x) /\ \E i \in 1 .. Len(names) : EitherIncludes(x, names[i])

\* C32: the override findMatchingOverride selects is one whose every stated
\* rule the device satisfies: the apiLevel inside the stated range, the model
\* among the listed models, the manufacturer among the listed manufacturers;
\* an override that lists models is not selected for a device without model
C32_SelectedSatisfiesEveryRule ==
    (LookedUp /\ loc.idx # 0 /\ store[loc.idx].targeting.present) =>
        LET t == store[loc.idx].targeting
        IN  /\ TruthyNum(t.minApiLevel) =>
                   (TruthyNum(dev.apiLevel) /\ dev.apiLevel >= t.minApiLevel)
            /\ TruthyNum(t.maxApiLevel) =>
                   (TruthyNum(dev.apiLevel) /\ dev.apiLevel <= t.maxApiLevel)
            /\ Len(t.deviceModels) > 0 => MatchesOneOf(dev.model, t.deviceModels)
            /\ Len(t.manufacturers) > 0 => MatchesOneOf(dev.manufacturer, t.manufacturers)

\* ------------------------------------------------------------------------
\* C33
\* ------------------------------------------------------------------------
\* a request to the store of the given kind failed
StoreFailed(method) ==
    \E i \in DOMAIN calls :
        calls[i].site = "firebase" /\ calls[i].method = method /\ ~calls[i].ok

\* C33: when the log append or the counter update of a matched override
\* fails, /apk-url still answers success = true with source manual_override
\* and the override's downloadUrl; when the override look-up fails, the
\* handler goes on with the metadata request of the normal resolution and
\* answers with a resolution result
C33_AccountingIsBestEffort ==
    /\ (Responded /\ (StoreFailed("PUSH") \/ StoreFailed("UPDATE"))) =>
           /\ LastBody.success = TRUE
           /\ LastBody.source = "manual_override"
           /\ LastBody.downloadUrl = store[loc.idx].override.downloadUrl
    /\ StoreFailed("GET") =>
           /\ pc # "idle"
           /\ pc \notin {"override_log", "override_incr"}
           /\ pc # "meta" => calls[2].site = "gplay"
           /\ Responded =>
                  /\ ~RequestLevelError(LastBody)
                  /\ HasField(LastBody, "packageName")
                  /\ ~HasField(LastBody, "overrideId")

C33_Witness ==
    /\ Responded
    /\ StoreFailed("PUSH") /\ StoreFailed("UPDATE")
    /\ logs = << >>
    /\ store[loc.idx].status.installCount = 0
    /\ LastBody.source = "manual_override"

\* ------------------------------------------------------------------------
\* C34
\* ------------------------------------------------------------------------
\* the requests the handler sent to an upstream site (the override store is
\* not one)
Upstream(i) == calls[i].site # "firebase"

\* C34: during one /apk-url request, in every revision, an upstream request
\* that failed is not sent again by a later step
C34_FailedProbeNeverRepeated ==
    \A i, j \in DOMAIN calls :
        (i < j /\ Upstream(i) /\ Upstream(j) /\ ~calls[i].ok) =>
            ~(calls[i].url = calls[j].url /\ calls[i].method = calls[j].method)

\* ------------------------------------------------------------------------
\* C35
\* ------------------------------------------------------------------------
\* probe k answered with a status below 400 and a declared content length
\* above 1,000,000 bytes
Qualifies(k) == loc.arg[k].ok /\ loc.arg[k].size > 1000000

\* C35: the version-code probing returns the first listed code whose probe
\* qualifies, with the URL it probed, after exactly the probes up to that
\* code; when no code qualifies it returns no result after one probe per
\* listed code (12 in v4.5, 5 in v4.3)
C35_FirstVerifiedCodeReturned ==
    Applied("tryOlderVersionCodes") =>
        LET codes == VersionCodes(rev)
            n == IF rev = "v4.5" THEN 12 ELSE 5
            out == loc.out
        IN  /\ Len(codes) = n
            /\ out.probed <= n
            /\ IF \E k \in 1 .. n : Qualifies(k)
               THEN LET first == CHOOSE k \in 1 .. n :
                                     Qualifies(k) /\ \A m \in 1 .. (k - 1) : ~Qualifies(m)
                    IN  /\ out.probed = first
                        /\ out.result.success = TRUE
                        /\ out.result.version = <<codes[first]>>
                        /\ out.result.downloadUrl =
                               (IF rev = "v4.5"
                                THEN ProxyUrl(ProbeUrl(rev, ChatGptPkg, codes[first]),
                                              ChatGptPkg, <<codes[first]>>)
                                ELSE ProbeUrl(rev, ChatGptPkg, codes[first]))
               ELSE /\ out.probed = n
                    /\ out.result = (IF rev = "v4.5" THEN Null ELSE [success |-> FALSE])

\* the first probe answers with exactly 1,000,000 bytes and is passed over,
\* the third qualifies and is returned
C35_Witness ==
    /\ Applied("tryOlderVersionCodes")
    /\ rev = "v4.5"
    /\ loc.arg[1] = [ok |-> TRUE, size |-> 1000000]
    /\ Qualifies(3)
    /\ loc.out.probed = 3
    /\ loc.out.result.version = <<"10241000">>

\* ------------------------------------------------------------------------
\* C36
\* ------------------------------------------------------------------------
\* the request arrives, and every awaited request settles (each has a
\* timeout or is answered), so a handler that has not answered is resumed
\* again and again
SpecLive ==
    /\ Init /\ [][Next]_vars
    /\ WF_vars(Request)
    /\ ([]<>(pc = "done") \/ []<><<Next>>_vars)

ResolvedUrls(r) ==
    IF r = "v4.5"
    THEN UNION {{LatestUrl("XAPK", p), LatestUrl("APK", p)}
                \cup {ProbeUrl(r, p, VersionCodes45[k]) : k \in DOMAIN VersionCodes45}
                \cup {VersionCodeUrl("d.apkpure.net", p, OLDER_VERSIONS_DB(p)[k].versionCode) :
                          k \in DOMAIN OLDER_VERSIONS_DB(p)} : p \in Packages}
    ELSE {LatestUrl("APK", p) : p \in Packages}

\* an address inside the host's network, which no resolution hands out
InternalUrl == <<"http://", "169.254.169.254", "/latest/meta-data">>

\* req.query.url of a proxy request
ProxyQueryUrls ==
    {NoStr, InternalUrl, LatestUrl("APK", ExamplePkg), LatestUrl("APK", ChatGptPkg),
     LatestUrl("XAPK", ChatGptPkg),
     ProbeUrl("v4.5", ChatGptPkg, VersionCodes45[1]),
     VersionCodeUrl("d.apkpure.net", ChatGptPkg, OLDER_VERSIONS_DB(ChatGptPkg)[2].versionCode)}

\* req.query.pkg and req.query.ver (v1.0 reads neither)
ProxyQueries(r) ==
    [url : ProxyQueryUrls,
     pkg : IF r = "v4.5" THEN {NoStr, ChatGptPkg} ELSE {NoStr},
     ver : IF r = "v4.5" THEN {NoStr, <<"1.0">>} ELSE {NoStr}]

\* the upstream's answer to the streamed GET: headers['content-length'] or a throw
ProxyAnswers ==
    {[ok |-> TRUE, contentLength |-> NoStr], [ok |-> TRUE, contentLength |-> <<"5000000">>],
     [ok |-> FALSE, contentLength |-> NoStr]}

\* req.query.pkg || 'app', req.query.ver || 'unknown'
OrElse(s, default) == IF TruthyStr(s) THEN s ELSE default

\* the headers set before response.data.pipe(res)
StreamHeaders(r, q, a) ==
    LET base == [ContentType |-> "application/vnd.android.package-archive",
                 ContentDisposition |->
                     IF r = "v4.5"
                     THEN <<"attachment; filename=\"">> \o OrElse(q.pkg, <<"app">>) \o <<"_">>
                              \o OrElse(q.ver, <<"unknown">>) \o <<".apk\"">>
                     ELSE <<"attachment; filename=\"", "app.apk", "\"">>]
    IN  IF r = "v4.5" /\ TruthyStr(a.contentLength)
        THEN base @@ [ContentLength |-> a.contentLength]
        ELSE base

\* res.status(400).json(...) of a request without url
MissingUrlBody(r) ==
    IF r = "v4.5" THEN [error |-> "Missing url"]
    ELSE [success |-> FALSE, error |-> "URL required"]

\* res.status(500).json(...) of the catch
ProxyFailBody(r) ==
    IF r = "v4.5" THEN [error |-> "Download failed", message |-> "threw"]
    ELSE [success |-> FALSE, error |-> "Failed to fetch APK: threw"]

InitProxy ==
    /\ rev \in {"v4.5", "v1.0"}
    /\ pc = "idle"
    /\ pkg = NoStr
    /\ dev = NoDev
    /\ loc = [url |-> NoStr, pkg |-> NoStr, ver |-> NoStr]
    /\ calls = << >>
    /\ sent = << >>
    /\ firebaseInitialized = FALSE
    /\ store = << >>
    /\ logs = << >>

\* the handler up to its await: the query is read and a request without url
\* is answered with 400
ProxyRequest ==
    /\ pc = "idle"
    /\ \E q \in ProxyQueries(rev) :
       /\ loc' = q
       /\ IF ~TruthyStr(q.url)
          THEN /\ pc' = "done"
               /\ sent' = Append(sent, [status |-> 400, body |-> MissingUrlBody(rev)])
          ELSE /\ pc' = "proxy_fetch"
               /\ sent' = sent
    /\ UNCHANGED <<rev, pkg, dev, calls, firebaseInitialized, store, logs>>

\* await axios({method: 'GET', url, responseType: 'stream'}), then the pipe
\* or the catch
ProxyFetch ==
    /\ pc = "proxy_fetch"
    /\ \E a \in ProxyAnswers :
       /\ calls' = Append(calls, Call("url", "GET", loc.url, a.ok))
       /\ sent' = Append(sent, IF a.ok
                               THEN [status |-> 200,
                                     body |-> [stream |-> loc.url,
                                               headers |-> StreamHeaders(rev, loc, a)]]
                               ELSE [status |-> 500, body |-> ProxyFailBody(rev)])
       /\ pc' = "done"
    /\ UNCHANGED <<rev, pkg, dev, loc, firebaseInitialized, store, logs>>

NextProxy == ProxyRequest \/ ProxyFetch

SpecProxy == InitProxy /\ [][NextProxy]_vars

\* C37: every URL a proxy fetches is one the resolution of its revision
\* hands out, and a request without url is answered with 400 and no fetch
C37_OnlyResolvedUrlsRelayed ==
    /\ \A i \in DOMAIN calls : calls[i].url \in ResolvedUrls(rev)
    /\ (pc = "done" /\ ~TruthyStr(loc.url))
           => (calls = << >> /\ Len(sent) = 1 /\ sent[1].status = 400)

\* ------------------------------------------------------------------------
\* C38
\* ------------------------------------------------------------------------
\* the table of the revision for com.openai.chatgpt as <<minimum, maximum>>
\* API levels, in the table's order
TableRanges(r) ==
    IF r = "v4.3"
    THEN [k \in DOMAIN KNOWN_OLDER_VERSIONS(ChatGptPkg) |->
              <<KNOWN_OLDER_VERSIONS(ChatGptPkg)[k].minSdk,
                KNOWN_OLDER_VERSIONS(ChatGptPkg)[k].maxApiLevel>>]
    ELSE [k \in DOMAIN OLDER_VERSIONS_DB(ChatGptPkg) |->
              <<OLDER_VERSIONS_DB(ChatGptPkg)[k].minApi,
                OLDER_VERSIONS_DB(ChatGptPkg)[k].maxApi>>]

InRange(range, apiLevel) == range[1] <= apiLevel /\ apiLevel <= range[2]

\* the entry documented for an API level: of the entries whose range holds
\* the level, the one marked with the lowest maximum; 0 when there is none
DocumentedIdx(r, apiLevel) ==
    LET t == TableRanges(r)
        fits == {k \in DOMAIN t : InRange(t[k], apiLevel)}
    IN  IF fits = {} THEN 0
        ELSE CHOOSE k \in fits : \A j \in fits : t[k][2] <= t[j][2]

\* C38: the table lookup returns the entry documented for the device's API
\* level, and every entry of the table is returned for some API level
C38_DocumentedEntrySelected ==
    Applied("olderVersions.find")
        => /\ loc.out.idx = DocumentedIdx(rev, loc.arg)
           /\ \A k \in DOMAIN TableRanges(rev) :
                  \E a \in TableApiLevels : OlderVersionIdx(rev, a) = k

\* ------------------------------------------------------------------------
\* C39
\* ------------------------------------------------------------------------
\* a <= b for two parsed floats
FLe(a, b) == ~a.nan /\ ~b.nan /\ a.num * b.den <= b.num * a.den

\* C39: of two version strings with API levels, the one with the lower
\* numeric value never has the higher API level
C39_VersionToApiMonotone ==
    (/\ Applied("androidVersionToApi twice")
     /\ loc.out.a # Null /\ loc.out.b # Null
     /\ FLe(ParseFloat(loc.arg[1]), ParseFloat(loc.arg[2])))
        => loc.out.a <= loc.out.b

\* ------------------------------------------------------------------------
\* /check-compatibility (v4.2), followed by /apk-url for the same package,
\* device and store metadata
\* ------------------------------------------------------------------------
\* the query of both requests: apiLevel only, needsOlderVersion absent
CompatQueries ==
    [apiLevel : {NoStr, <<"0">>, <<"-", "5">>, <<"2", "5">>, <<"3", "1">>, <<"3", "4">>},
     arch : {NoStr}, dpi : {NoStr}, model : {NoStr}, manufacturer : {NoStr},
     needsOlderVersion : {NoStr}]

\* a faulty variant of Compatible that calls a device at exactly the minimum
\* level incompatible; C40_CompatibilityAgreesWithBranch must reject it
CompatibleAbove(minSdk, apiLevel) == ~TruthyNum(minSdk) \/ minSdk < apiLevel

\* !minSdk || minSdk <= deviceInfo.apiLevel
Compatible(minSdk, apiLevel) == ~TruthyNum(minSdk) \/ minSdk <= apiLevel

\* the body of /check-compatibility after gplay.app() answered m
CompatBody(r, p, d, m) ==
    LET usable == TruthyStr(m.androidVersion) /\ ~Includes(m.androidVersion, <<"Varies">>)
        minSdk == IF usable THEN androidVersionToApi(r, m.androidVersion) ELSE Null
        compatible == IF usable THEN Compatible(minSdk, d.apiLevel) ELSE TRUE
    IN  [success |-> TRUE, packageName |-> p, appName |-> m.title,
         compatible |-> compatible,
         appRequirements |-> [minAndroidVersion |-> m.androidVersion, minSdk |-> minSdk],
         device |-> [apiLevel |-> d.apiLevel,
                     androidVersion |-> getAndroidVersionName(r, d.apiLevel)],
         message |-> IF compatible THEN <<"App should be compatible">>
                     ELSE <<"Requires Android ">> \o m.androidVersion
                              \o <<". An older version may work.">>]

\* the store's metadata for the package stays the same for both requests
InitCompat ==
    /\ rev = "v4.2"
    /\ pc = "idle"
    /\ pkg \in Packages
    /\ dev = NoDev
    /\ \E m \in MetaAnswers : loc = LocInit @@ [meta |-> m]
    /\ calls = << >>
    /\ sent = << >>
    /\ firebaseInitialized = FALSE
    /\ store = << >>
    /\ logs = << >>

\* /check-compatibility up to its await: a request without a usable apiLevel
\* is answered with 400
CompatRequest ==
    /\ pc = "idle"
    /\ \E q \in CompatQueries :
       /\ dev' = getDeviceInfo(rev, q)
       /\ IF ~TruthyNum(dev'.apiLevel)
          THEN /\ pc' = "done"
               /\ sent' = Append(sent, [status |-> 400,
                                        body |-> [error |-> "Missing apiLevel parameter"]])
          ELSE /\ pc' = "compat_meta"
               /\ sent' = sent
    /\ UNCHANGED <<rev, pkg, loc, calls, firebaseInitialized, store, logs>>

\* await gplay.app(...) of /check-compatibility, then res.json or the catch
CompatMeta ==
    /\ pc = "compat_meta"
    /\ calls' = Append(calls, Call("gplay", "GET", pkg, loc.meta.ok))
    /\ sent' = Append(sent, [status |-> 200,
                             body |-> IF loc.meta.ok
                                      THEN CompatBody(rev, pkg, dev, loc.meta)
                                      ELSE [success |-> FALSE, error |-> "threw"]])
    /\ pc' = "compat_done"
    /\ UNCHANGED <<rev, pkg, dev, loc, firebaseInitialized, store, logs>>

\* the same device asks /apk-url for the package, needsOlderVersion absent
ApkUrlRequest ==
    /\ pc = "compat_done"
    /\ loc' = [loc EXCEPT !.appName = pkg]
    /\ pc' = FirstStep(rev, firebaseInitialized)
    /\ UNCHANGED <<rev, pkg, dev, calls, sent, firebaseInitialized, store, logs>>

\* await gplay.app(...) of /apk-url and the branch decision
ApkUrlMeta ==
    /\ pc = "meta"
    /\ calls' = Append(calls, Call("gplay", "GET", pkg, loc.meta.ok))
    /\ Step(AfterMeta([loc EXCEPT !.appName = AppNameFrom(pkg, loc.meta),
                                  !.minSdk = MinSdkFromStore(rev, loc.meta)]))
    /\ UNCHANGED <<rev, pkg, dev, firebaseInitialized, store, logs>>

NextCompat == CompatRequest \/ CompatMeta \/ ApkUrlRequest \/ ApkUrlMeta

SpecCompat == InitCompat /\ [][NextCompat]_vars

\* /apk-url has decided its branch
BranchTaken == pc \in {"latest_xapk", "o42_mirror_search"}

\* /check-compatibility answered compatible: false
ReportedIncompatible == HasField(sent[1].body, "compatible") /\ ~sent[1].body.compatible

\* C40: /check-compatibility reports compatible=false exactly when /apk-url
\* without needsOlderVersion takes the older-version branch for the same
\* metadata and device, and a request without apiLevel is answered with 400
\* before any metadata lookup
C40_CompatibilityAgreesWithBranch ==
    /\ BranchTaken => (ReportedIncompatible <=> pc = "o42_mirror_search")
    /\ (pc # "idle" /\ ~TruthyNum(dev.apiLevel))
           => (pc = "done" /\ calls = << >> /\ Len(sent) = 1 /\ sent[1].status = 400)

\* an incompatible report followed by the older-version branch
C40_Witness == pc = "o42_mirror_search" /\ ReportedIncompatible /\ dev.apiLevel = 25

============================================================================
